---- MODULE Spec2Model ----
(***************************************************************************)
(* Model of the meeting-mcp server's key-moment extraction                 *)
(* (src/src/tools/links.ts) and transcript search tools                    *)
(* (src/unnamed/part_002, the search tools module).                        *)
(*                                                                         *)
(* Text is modelled as sequences of one-character strings, so that the     *)
(* regular-expression and String.includes tests of the code are substring  *)
(* tests in the model.                                                     *)
(***************************************************************************)
EXTENDS Integers, Sequences, FiniteSets, TLC

VARIABLES
    \* groupTranscriptsIntoChunks applied to drawn inputs
    cIn, cMax, cOut, cPc,
    \* one findKeyMoments invocation
    transcriptsIn,      \* response.bot_data.transcripts
    maxMoments,         \* args.maxMoments
    argTopics,          \* args.topics
    autoDetectTopics,   \* args.autoDetectTopics
    granularity,        \* args.granularity
    kmPc,               \* position in execute
    sortedTranscripts, contextChunks, candidateSegments,
    allSegments,        \* [...scoredSegments, ...structuralSegments], before the sort
    rankedSegments,     \* allSegments after the sort by importance
    dedupedSegments, finalSegments,
    kmResult,           \* the value execute returns: its kind and key moments
    allMeetingTopics,   \* args.topics followed by the topics detected per chunk
    topTopics,          \* the "Main Topics Discussed" of the value returned
    \* intelligentSearch invocations; run 2 repeats run 1's call on the same
    \* inputs and the same API responses, in a context of its own
    isTool,             \* the search tool invoked
    isQuery,            \* args.query
    isFilters,          \* args.filters
    isTranscripts,      \* bot_data.transcripts of the meeting
    isCtx,              \* per run: context.session, key sources, store behaviour
    isPc,               \* per run: position in execute
    isParsed,           \* per run: speaker, timeRange, searchTerms
    isResult,           \* per run: the value execute returns
    apiTrace,           \* outcome of the k-th apiRequest, as the API answered it
    apiCalls,           \* per run: apiRequest calls made so far
    recentBots,         \* per run: TinyDb data.recentBots
    recentBotIds,       \* per run: context.session.recentBotIds
    isShare,            \* what the runs share: "none", "store" (one server process),
                        \* "session" (one connection of one server process)
    \* one getApiKeyWithFallbacks call
    authIn,             \* the session, the environment variable, the config file
    authPc,             \* position in the call
    authOut,            \* the key returned, NoKey standing for null
    \* one TinyDb instance
    dbRecords,          \* data.recentBots
    dbCalls,            \* the ids trackBot was called with, in order
    \* one searchTranscriptByType invocation
    btIn,               \* context.session, the key sources, the store, args, the bots of the account
    btPc,               \* position in execute
    btLeft,             \* the bots the loop has still to search
    btResults,          \* allResults
    btRequests,         \* the apiRequest calls made: endpoint and the key of the session passed
    btRecentIds,        \* context.session.recentBotIds
    btResult,           \* the value execute returns
    \* one connection to the server
    connIn,             \* the x-api-key headers of the request and the environment variable
    connPc,             \* position in authenticate
    connOut             \* the session returned or the Response thrown

chunkVars == <<cIn, cMax, cOut, cPc>>
kmVars == <<transcriptsIn, maxMoments, kmPc, sortedTranscripts, contextChunks,
            candidateSegments, allSegments, rankedSegments, dedupedSegments,
            finalSegments, kmResult, argTopics, autoDetectTopics, granularity,
            allMeetingTopics, topTopics>>

isVars == <<isTool, isQuery, isFilters, isTranscripts, isCtx, isPc, isParsed, isResult,
            apiTrace, apiCalls, recentBots, recentBotIds, isShare>>

authVars == <<authIn, authPc, authOut>>

dbVars == <<dbRecords, dbCalls>>

btVars == <<btIn, btPc, btLeft, btResults, btRequests, btRecentIds, btResult>>

connVars == <<connIn, connPc, connOut>>

vars == <<chunkVars, kmVars, isVars, authVars, dbVars, btVars, connVars>>

----------------------------------------------------------------------------
(* Generic helpers *)

Range(s) == {s[i] : i \in 1..Len(s)}

RECURSIVE Flatten(_)
Flatten(ss) == IF ss = <<>> THEN <<>> ELSE Head(ss) \o Flatten(Tail(ss))

Min2(a, b) == IF a <= b THEN a ELSE b
Max2(a, b) == IF a >= b THEN a ELSE b
Abs(a) == IF a < 0 THEN -a ELSE a

\* A transcript segment as the backend returns it (Transcript type).
Seg(t, spk, ws) == [start_time |-> t, speaker |-> spk, words |-> ws]

----------------------------------------------------------------------------
(* Text: a string is a sequence of one-character strings *)

UpperCase == <<"A", "B", "C", "D", "E", "F", "G", "H", "I", "J", "K", "L", "M",
               "N", "O", "P", "Q", "R", "S", "T", "U", "V", "W", "X", "Y", "Z">>
LowerCase == <<"a", "b", "c", "d", "e", "f", "g", "h", "i", "j", "k", "l", "m",
               "n", "o", "p", "q", "r", "s", "t", "u", "v", "w", "x", "y", "z">>
Digits == <<"0", "1", "2", "3", "4", "5", "6", "7", "8", "9">>

\* String.prototype.toLowerCase on one character
LowerChar(c) ==
    IF \E i \in 1..26 : UpperCase[i] = c
    THEN LowerCase[CHOOSE i \in 1..26 : UpperCase[i] = c]
    ELSE c

\* String.prototype.toLowerCase
toLowerCase(s) == [i \in 1..Len(s) |-> LowerChar(s[i])]

\* String.prototype.includes: pat occurs in s as a substring
includes(s, pat) ==
    \E i \in 0..(Len(s) - Len(pat)) : SubSeq(s, i + 1, i + Len(pat)) = pat

\* RegExp.test for a case-insensitive alternation of literals, /(?:a|b|...)/i
TestAny(text, literals) ==
    LET t == toLowerCase(text) IN \E k \in literals : includes(t, k)

IsSpace(c) == c = " "

\* String.prototype.split on runs of the characters of seps (/\s+/, /[.!?]+/): the
\* maximal runs of other characters, with an empty piece before a leading
\* and after a trailing separator; "" yields one empty piece
SplitOn(s, seps) ==
    LET starts == {i \in 1..Len(s) : s[i] \notin seps /\ (i = 1 \/ s[i - 1] \in seps)}
        EndOf(b) == CHOOSE e \in b..Len(s) :
                       /\ \A k \in b..e : s[k] \notin seps
                       /\ (e = Len(s) \/ s[e + 1] \in seps)
        NthStart(n) == CHOOSE b \in starts : Cardinality({c \in starts : c < b}) = n - 1
    IN (IF s = <<>> \/ s[1] \in seps THEN << <<>> >> ELSE <<>>)
       \o [n \in 1..Cardinality(starts) |-> SubSeq(s, NthStart(n), EndOf(NthStart(n)))]
       \o (IF s # <<>> /\ s[Len(s)] \in seps THEN << <<>> >> ELSE <<>>)

\* String.prototype.split(/\s+/)
splitWhitespace(s) == SplitOn(s, {" "})

\* Array.prototype.join
RECURSIVE join(_, _)
join(pieces, sep) ==
    IF pieces = <<>> THEN <<>>
    ELSE IF Len(pieces) = 1 THEN pieces[1]
    ELSE pieces[1] \o sep \o join(Tail(pieces), sep)

\* String.prototype.trim
RECURSIVE trim(_)
trim(s) ==
    IF s = <<>> THEN s
    ELSE IF IsSpace(s[1]) THEN trim(Tail(s))
    ELSE IF IsSpace(s[Len(s)]) THEN trim(SubSeq(s, 1, Len(s) - 1))
    ELSE s

\* transcript.words.map(w => w.text).join(" ")
SegmentText(segment) == join(segment.words, <<" ">>)

\* Array.prototype.sort with comparator (a, b) => key(a) - key(b): stable
\* (ECMAScript 2019), ascending by key. InsertIndex and SortIndices work on
\* the indices of the array, keys[i] being the key of element i.
RECURSIVE InsertIndex(_, _, _)
InsertIndex(sorted, x, keys) ==
    IF sorted = <<>> THEN <<x>>
    ELSE IF keys[sorted[Len(sorted)]] <= keys[x] THEN Append(sorted, x)
    ELSE Append(InsertIndex(SubSeq(sorted, 1, Len(sorted) - 1), x, keys),
                sorted[Len(sorted)])

RECURSIVE SortIndices(_, _, _)
SortIndices(keys, i, acc) ==
    IF i > Len(keys) THEN acc ELSE SortIndices(keys, i + 1, InsertIndex(acc, i, keys))

StableSortByKeys(s, keys) ==
    LET order == SortIndices(keys, 1, <<>>)
    IN [i \in 1..Len(s) |-> s[order[i]]]
----------------------------------------------------------------------------
(* groupTranscriptsIntoChunks, links.ts 300-323 *)

\* mutant: the join test uses < instead of <=
RECURSIVE GroupLoopStrict(_, _, _, _, _, _)
GroupLoopStrict(transcripts, i, chunks, currentChunk, chunkStartTime, maxChunkDuration) ==
    IF i > Len(transcripts)
    THEN IF Len(currentChunk) > 0 THEN Append(chunks, currentChunk) ELSE chunks
    ELSE LET segment == transcripts[i] IN
         IF Len(currentChunk) = 0
            \/ segment.start_time - chunkStartTime < maxChunkDuration
         THEN GroupLoopStrict(transcripts, i + 1, chunks, Append(currentChunk, segment),
                              chunkStartTime, maxChunkDuration)
         ELSE GroupLoopStrict(transcripts, i + 1, Append(chunks, currentChunk),
                              <<segment>>, segment.start_time, maxChunkDuration)

\* the for-loop over the segments, from index i on
RECURSIVE GroupLoop(_, _, _, _, _, _)
GroupLoop(transcripts, i, chunks, currentChunk, chunkStartTime, maxChunkDuration) ==
    IF i > Len(transcripts)
    THEN IF Len(currentChunk) > 0 THEN Append(chunks, currentChunk) ELSE chunks
    ELSE LET segment == transcripts[i] IN
         IF Len(currentChunk) = 0
            \/ segment.start_time - chunkStartTime <= maxChunkDuration
         THEN GroupLoop(transcripts, i + 1, chunks, Append(currentChunk, segment),
                        chunkStartTime, maxChunkDuration)
         ELSE GroupLoop(transcripts, i + 1, Append(chunks, currentChunk), <<segment>>,
                        segment.start_time, maxChunkDuration)

\* mutant: the chunk still open when the loop ends is not pushed
groupTranscriptsIntoChunksNoLast(transcripts, maxChunkDuration) ==
    IF Len(transcripts) = 0 THEN <<>>
    ELSE LET all == GroupLoop(transcripts, 1, <<>>, <<>>,
                              transcripts[1].start_time, maxChunkDuration)
         IN SubSeq(all, 1, Len(all) - 1)

groupTranscriptsIntoChunks(transcripts, maxChunkDuration) ==
    IF Len(transcripts) = 0 THEN <<>>
    ELSE GroupLoop(transcripts, 1, <<>>, <<>>,
                   transcripts[1].start_time, maxChunkDuration)

----------------------------------------------------------------------------
(* Credential resolution, utils/auth.ts *)

NoKey == ""

\* mutant: a built-in key is used when no source provides one
getApiKeyWithFallbacksDefaultKey(sessionKey, envKey, configKey) ==
    IF sessionKey # NoKey THEN sessionKey
    ELSE IF envKey # NoKey THEN envKey
    ELSE IF configKey # NoKey THEN configKey
    ELSE "k0"

\* mutant: the environment variable is tried before the session
getApiKeyWithFallbacksEnvFirst(sessionKey, envKey, configKey) ==
    IF envKey # NoKey THEN envKey
    ELSE IF sessionKey # NoKey THEN sessionKey
    ELSE IF configKey # NoKey THEN configKey
    ELSE NoKey

\* getApiKeyWithFallbacks: session, then environment, then config file
getApiKeyWithFallbacks(sessionKey, envKey, configKey) ==
    IF sessionKey # NoKey THEN sessionKey
    ELSE IF envKey # NoKey THEN envKey
    ELSE IF configKey # NoKey THEN configKey
    ELSE NoKey

\* createValidSession: the resolved key, NoKey standing for the null session
createValidSession(sessionKey, envKey, configKey) ==
    getApiKeyWithFallbacks(sessionKey, envKey, configKey)

\* session?.apiKey: an undefined session, a session without a key and an
\* empty key are all falsy
SessionStates == {"undefined", "nokey", "", "k1"}
SessionKey(session) == IF session \in {"undefined", "nokey"} THEN NoKey ELSE session

\* process.env.MEETING_BAAS_API_KEY: unset, empty, or a key
EnvStates == {"unset", "", "k2"}
EnvKey(env) == IF env = "unset" THEN NoKey ELSE env

\* claude_desktop_config.json: not there, readFileSync throws, JSON.parse
\* throws, no meetingbaas x-api-key entry, an empty entry, or a key
ConfigStates == {"absent", "unreadable", "malformed", "noentry", "", "k3"}
ConfigKey(config) ==
    IF config \in {"absent", "noentry"} THEN NoKey
    ELSE IF config \in {"unreadable", "malformed"} THEN NoKey   \* catch (error)
    ELSE config

\* one call of getApiKeyWithFallbacks
Auth_Call ==
    /\ authPc = "call"
    /\ authOut' = getApiKeyWithFallbacks(SessionKey(authIn.session), EnvKey(authIn.env),
                                         ConfigKey(authIn.config))
    /\ authPc' = "done"
    /\ UNCHANGED authIn

\* (session key, environment key, config-file key) as an invocation finds them
CredCases == {<<"k1", NoKey, NoKey>>, <<NoKey, "k2", NoKey>>, <<NoKey, NoKey, NoKey>>}

----------------------------------------------------------------------------
(* Segment scoring, links.ts 433-598 *)

\* importancePatterns, in table order
ImportanceLiterals ==
    {<<"i", "m", "p", "o", "r", "t", "a", "n", "t">>, <<"k", "e", "y">>, <<"c", "r", "i", "t", "i", "c", "a", "l">>, <<"e", "s", "s", "e", "n", "t", "i", "a", "l">>, <<"s", "i", "g", "n", "i", "f", "i", "c", "a", "n", "t">>, <<"m", "a", "i", "n">>, <<"m", "a", "j", "o", "r">>}
SummaryLiterals ==
    {<<"s", "u", "m", "m", "a", "r", "i", "z", "e">>, <<"s", "u", "m", "m", "a", "r", "y">>, <<"s", "u", "m", "m", "a", "r", "i", "z", "i", "n", "g">>, <<"c", "o", "n", "c", "l", "u", "d", "e">>, <<"c", "o", "n", "c", "l", "u", "s", "i", "o", "n">>,
     <<"i", "n", " ", "c", "o", "n", "c", "l", "u", "s", "i", "o", "n">>, <<"t", "o", " ", "s", "u", "m", " ", "u", "p">>}
ObligationLiterals ==
    {<<"n", "e", "e", "d", " ", "t", "o">>, <<"h", "a", "v", "e", " ", "t", "o">>, <<"m", "u", "s", "t">>, <<"s", "h", "o", "u", "l", "d">>, <<"w", "i", "l", "l">>, <<"g", "o", "i", "n", "g", " ", "t", "o">>, <<"p", "l", "a", "n", " ", "t", "o">>,
     <<"a", "c", "t", "i", "o", "n", " ", "i", "t", "e", "m">>}
DecisionLiterals ==
    {<<"a", "g", "r", "e", "e">>, <<"d", "i", "s", "a", "g", "r", "e", "e">>, <<"c", "o", "n", "s", "e", "n", "s", "u", "s">>, <<"d", "e", "c", "i", "s", "i", "o", "n">>, <<"d", "e", "c", "i", "d", "e">>, <<"d", "e", "c", "i", "d", "e", "d">>,
     <<"d", "e", "t", "e", "r", "m", "i", "n", "e", "d">>}
ProblemLiterals ==
    {<<"p", "r", "o", "b", "l", "e", "m">>, <<"i", "s", "s", "u", "e">>, <<"c", "h", "a", "l", "l", "e", "n", "g", "e">>, <<"o", "b", "s", "t", "a", "c", "l", "e">>, <<"d", "i", "f", "f", "i", "c", "u", "l", "t", "y">>}
SolutionLiterals ==
    {<<"s", "o", "l", "u", "t", "i", "o", "n">>, <<"r", "e", "s", "o", "l", "v", "e">>, <<"s", "o", "l", "v", "e">>, <<"a", "p", "p", "r", "o", "a", "c", "h">>, <<"s", "t", "r", "a", "t", "e", "g", "y">>, <<"t", "a", "c", "t", "i", "c">>}
NextStepsLiterals ==
    {<<"n", "e", "x", "t", " ", "s", "t", "e", "p", "s">>, <<"f", "o", "l", "l", "o", "w", " ", "u", "p">>, <<"g", "e", "t", " ", "b", "a", "c", "k">>, <<"c", "i", "r", "c", "l", "e", " ", "b", "a", "c", "k">>, <<"f", "u", "t", "u", "r", "e">>, <<"n", "e", "x", "t", " ", "t", "i", "m", "e">>}

importancePatterns ==
    << [literals |-> ImportanceLiterals, weight |-> 3],
       [literals |-> SummaryLiterals, weight |-> 4],
       [literals |-> ObligationLiterals, weight |-> 2],
       [literals |-> DecisionLiterals, weight |-> 3],
       [literals |-> ProblemLiterals, weight |-> 2],
       [literals |-> SolutionLiterals, weight |-> 2],
       [literals |-> NextStepsLiterals, weight |-> 3] >>

\* the next-steps test of determineDescription (differs from the scoring table)
DescribeNextStepsLiterals ==
    {<<"n", "e", "x", "t", " ", "s", "t", "e", "p", "s">>, <<"f", "o", "l", "l", "o", "w", " ", "u", "p">>, <<"m", "o", "v", "i", "n", "g", " ", "f", "o", "r", "w", "a", "r", "d">>, <<"f", "u", "t", "u", "r", "e">>, <<"p", "l", "a", "n">>}

RECURSIVE PatternScore(_, _)
PatternScore(text, i) ==
    IF i > Len(importancePatterns) THEN 0
    ELSE (IF TestAny(text, importancePatterns[i].literals)
          THEN importancePatterns[i].weight ELSE 0) + PatternScore(text, i + 1)

\* mutant: the length bonus is not capped
LengthBonusUncapped(text) == Len(splitWhitespace(text)) \div 20

\* Math.min(2, Math.floor(text.split(/\s+/).length / 20))
LengthBonus(text) == Min2(2, Len(splitWhitespace(text)) \div 20)

ImportanceScore(text) == PatternScore(text, 1) + LengthBonus(text)

determineDescription(text, importance) ==
    IF TestAny(text, SummaryLiterals) THEN "Summary or conclusion"
    ELSE IF TestAny(text, DescribeNextStepsLiterals) THEN "Discussion about next steps"
    ELSE IF TestAny(text, DecisionLiterals) THEN "Decision point"
    ELSE IF TestAny(text, ProblemLiterals) THEN "Problem discussion"
    ELSE IF TestAny(text, SolutionLiterals) THEN "Solution discussion"
    ELSE IF importance > 5 THEN "Highly important discussion"
    ELSE IF importance > 3 THEN "Important point"
    ELSE "Notable discussion"

\* transcript.speaker || "Unknown speaker"
SpeakerOrUnknown(segment) ==
    IF segment.speaker = <<>> THEN <<"U", "n", "k", "n", "o", "w", "n", " ", "s", "p", "e", "a", "k", "e", "r">> ELSE segment.speaker

Candidate(segment, imp, type, description) ==
    [timestamp |-> segment.start_time, speaker |-> SpeakerOrUnknown(segment),
     text |-> SegmentText(segment), importance |-> imp, type |-> type,
     description |-> description]

RECURSIVE findImportantSegmentsFrom(_, _)
findImportantSegmentsFrom(transcripts, i) ==
    IF i > Len(transcripts) THEN <<>>
    ELSE LET text == SegmentText(transcripts[i])
             importanceScore == ImportanceScore(text)
         IN (IF importanceScore > 0
             THEN <<Candidate(transcripts[i], importanceScore, "content",
                              determineDescription(text, importanceScore))>>
             ELSE <<>>) \o findImportantSegmentsFrom(transcripts, i + 1)

findImportantSegments(transcripts) == findImportantSegmentsFrom(transcripts, 1)

ConversationDescription(n) ==
    IF n = 2 THEN "Active discussion with 2 participants"
    ELSE "Active discussion with 3 participants"

\* mutant: the scan resumes at the next segment after an emission too
RECURSIVE ConversationLoopOverlapping(_, _)
ConversationLoopOverlapping(transcripts, i) ==
    IF i > Len(transcripts) - 2 THEN <<>>
    ELSE LET segment1 == transcripts[i]
             segment3 == transcripts[i + 2]
             speakers == {transcripts[j].speaker : j \in i..(i + 2)} \ {<<>>}
             timeSpan == segment3.start_time - segment1.start_time
         IN (IF Cardinality(speakers) >= 2 /\ timeSpan < 60
             THEN <<Candidate(segment1, 2 + Cardinality(speakers), "conversation",
                              ConversationDescription(Cardinality(speakers)))>>
             ELSE <<>>) \o ConversationLoopOverlapping(transcripts, i + 1)

\* the for-loop of findConversationalExchanges, i counted from 1
RECURSIVE ConversationLoop(_, _)
ConversationLoop(transcripts, i) ==
    IF i > Len(transcripts) - 2 THEN <<>>
    ELSE LET segment1 == transcripts[i]
             segment3 == transcripts[i + 2]
             speakers == {transcripts[j].speaker : j \in i..(i + 2)} \ {<<>>}
             timeSpan == segment3.start_time - segment1.start_time
         IN IF Cardinality(speakers) >= 2 /\ timeSpan < 60
            THEN <<Candidate(segment1, 2 + Cardinality(speakers), "conversation",
                             ConversationDescription(Cardinality(speakers)))>>
                 \o ConversationLoop(transcripts, i + 3)
            ELSE ConversationLoop(transcripts, i + 1)

findConversationalExchanges(transcripts) ==
    IF Len(transcripts) < 3 THEN <<>> ELSE ConversationLoop(transcripts, 1)

\* mutant: the meeting-start entry is emitted only for a one-segment meeting
getStructuralSegmentsNoStart(transcripts) ==
    IF Len(transcripts) = 0 THEN <<>>
    ELSE LET first == transcripts[1]
             last == transcripts[Len(transcripts)]
         IN IF Len(transcripts) > 1 /\ last.start_time # first.start_time
            THEN <<Candidate(last, 4, "structural", "Meeting conclusion")>>
            ELSE <<Candidate(first, 5, "structural", "Meeting start")>>

\* mutant: a meeting of one segment has no structural segments
getStructuralSegmentsIfSeveral(transcripts) ==
    IF Len(transcripts) <= 1 THEN <<>>
    ELSE LET first == transcripts[1]
             last == transcripts[Len(transcripts)]
         IN <<Candidate(first, 5, "structural", "Meeting start")>>
            \o (IF last.start_time # first.start_time
                THEN <<Candidate(last, 4, "structural", "Meeting conclusion")>>
                ELSE <<>>)

getStructuralSegments(transcripts) ==
    IF Len(transcripts) = 0 THEN <<>>
    ELSE LET first == transcripts[1]
             last == transcripts[Len(transcripts)]
         IN <<Candidate(first, 5, "structural", "Meeting start")>>
            \o (IF Len(transcripts) > 1 /\ last.start_time # first.start_time
                THEN <<Candidate(last, 4, "structural", "Meeting conclusion")>>
                ELSE <<>>)

\* [...transcripts].sort((a, b) => a.start_time - b.start_time)
sortTranscripts(transcripts) ==
    StableSortByKeys(transcripts, [i \in 1..Len(transcripts) |-> transcripts[i].start_time])

\* scoreSegments returns every segment unchanged
scoreSegments(segments) == segments

----------------------------------------------------------------------------
(* Ranking, links.ts 254-260 and 616-636 *)

DedupThreshold == 30

\* usedTimeRanges.some(range => Math.abs(segment.timestamp - range) < 30)
isTooClose(timestamp, usedTimeRanges) ==
    \E k \in 1..Len(usedTimeRanges) :
        Abs(timestamp - usedTimeRanges[k]) < DedupThreshold

\* mutant: a candidate is compared with the last accepted timestamp only
RECURSIVE DedupLoopLastOnly(_, _, _, _)
DedupLoopLastOnly(segments, i, result, usedTimeRanges) ==
    IF i > Len(segments) THEN result
    ELSE IF usedTimeRanges # <<>>
            /\ Abs(segments[i].timestamp - usedTimeRanges[Len(usedTimeRanges)])
                 < DedupThreshold
         THEN DedupLoopLastOnly(segments, i + 1, result, usedTimeRanges)
         ELSE DedupLoopLastOnly(segments, i + 1, Append(result, segments[i]),
                                Append(usedTimeRanges, segments[i].timestamp))

RECURSIVE DedupLoop(_, _, _, _)
DedupLoop(segments, i, result, usedTimeRanges) ==
    IF i > Len(segments) THEN result
    ELSE IF isTooClose(segments[i].timestamp, usedTimeRanges)
         THEN DedupLoop(segments, i + 1, result, usedTimeRanges)
         ELSE DedupLoop(segments, i + 1, Append(result, segments[i]),
                        Append(usedTimeRanges, segments[i].timestamp))

deduplicateSegments(segments) ==
    IF Len(segments) <= 1 THEN segments ELSE DedupLoop(segments, 1, <<>>, <<>>)

\* mutant: the candidates are sorted by ascending importance
sortByImportanceAscending(segments) ==
    StableSortByKeys(segments, [i \in 1..Len(segments) |-> segments[i].importance])

\* allSegments.sort((a, b) => b.importance - a.importance)
sortByImportance(segments) ==
    StableSortByKeys(segments, [i \in 1..Len(segments) |-> -segments[i].importance])

\* dedupedSegments.sort((a, b) => a.timestamp - b.timestamp)
sortChronological(segments) ==
    StableSortByKeys(segments, [i \in 1..Len(segments) |-> segments[i].timestamp])

\* mutant: the list is cut to maxMoments before the chronological sort
takeMomentsByRank(deduped, maxCount) ==
    sortChronological(SubSeq(deduped, 1, Min2(maxCount, Len(deduped))))

\* chronologicalSegments.slice(0, args.maxMoments), for maxMoments >= 0
takeMoments(deduped, maxCount) ==
    LET chronologicalSegments == sortChronological(deduped)
    IN SubSeq(chronologicalSegments, 1, Min2(maxCount, Len(chronologicalSegments)))

\* finalSegments.map(segment => ({timestamp, speaker, description}))
KeyMoment(c) ==
    [timestamp |-> c.timestamp, speaker |-> c.speaker, description |-> c.description]
----------------------------------------------------------------------------
(* Regular expressions, as the search tool uses them (all with the i flag).
   A pattern is a tuple <<kind, ...>>; Match gives, in the order a
   backtracking matcher tries them, the ways the pattern matches s from
   position p: records [e |-> position after the match, g |-> capture
   groups, each <<start, end>> with end exclusive, <<0, 0>> when unset]. *)

Lit(text) == <<"lit", text>>            \* a literal, given in lower case
Cls(chars) == <<"cls", chars>>          \* one character of a class
Sq(parts) == <<"seq", parts>>           \* concatenation
Alt(parts) == <<"alt", parts>>          \* ordered alternation
Opt(r) == <<"opt", r>>                  \* r?
Star(r) == <<"star", r>>                \* r*
Plus(r) == Sq(<<r, Star(r)>>)           \* r+
Grp(n, r) == <<"grp", n, r>>            \* capture group n
Rep(r, lo, hi) == <<"rep", r, lo, hi>>  \* r{lo,hi}, greedy

NoGroups == [n \in 1..4 |-> <<0, 0>>]

\* the length of the longest run of characters of chars in s from position p
RunLength(chars, s, p) ==
    CHOOSE n \in 0..(Len(s) - p + 1) :
        /\ \A k \in 0..(n - 1) : s[p + k] \in chars
        /\ (p + n > Len(s) \/ s[p + n] \notin chars)

\* the ways a greedy repetition of a character class matches from p, longest
\* first: between lo and hi characters (hi = -1: no upper limit)
RunWays(chars, s, p, g, lo, hi) ==
    LET run == IF p > Len(s) THEN 0 ELSE RunLength(chars, s, p)
        most == IF hi >= 0 /\ hi < run THEN hi ELSE run
    IN IF most < lo THEN <<>>
       ELSE [i \in 1..(most - lo + 1) |-> [e |-> p + most - i + 1, g |-> g]]

RECURSIVE Match(_, _, _, _)
RECURSIVE MatchSeq(_, _, _, _)
RECURSIVE MatchAlt(_, _, _, _)
RECURSIVE Continue(_, _, _, _)

\* for each way in `ways`, in order, the ways `rest` matches after it
Continue(ways, i, rest, s) ==
    IF i > Len(ways) THEN <<>>
    ELSE MatchSeq(rest, s, ways[i].e, ways[i].g) \o Continue(ways, i + 1, rest, s)

MatchSeq(parts, s, p, g) ==
    IF parts = <<>> THEN <<[e |-> p, g |-> g]>>
    ELSE Continue(Match(parts[1], s, p, g), 1, Tail(parts), s)

MatchAlt(parts, s, p, g) ==
    IF parts = <<>> THEN <<>>
    ELSE Match(parts[1], s, p, g) \o MatchAlt(Tail(parts), s, p, g)

Match(re, s, p, g) ==
    CASE re[1] = "lit" ->
           LET n == Len(re[2]) IN
           IF p + n - 1 <= Len(s) /\ toLowerCase(SubSeq(s, p, p + n - 1)) = re[2]
           THEN <<[e |-> p + n, g |-> g]>> ELSE <<>>
      [] re[1] = "cls" ->
           IF p <= Len(s) /\ s[p] \in re[2] THEN <<[e |-> p + 1, g |-> g]>> ELSE <<>>
      [] re[1] = "seq" -> MatchSeq(re[2], s, p, g)
      [] re[1] = "alt" -> MatchAlt(re[2], s, p, g)
      [] re[1] = "opt" -> Match(re[2], s, p, g) \o <<[e |-> p, g |-> g]>>
      [] re[1] = "star" /\ re[2][1] = "cls" -> RunWays(re[2][2], s, p, g, 0, -1)
      [] re[1] = "rep" /\ re[2][1] = "cls" -> RunWays(re[2][2], s, p, g, re[3], re[4])
      [] re[1] = "star" ->
           LET once == SelectSeq(Match(re[2], s, p, g), LAMBDA w : w.e > p)
           IN Continue(once, 1, <<re>>, s) \o <<[e |-> p, g |-> g]>>
      [] re[1] = "rep" ->
           IF re[4] = 0 THEN <<[e |-> p, g |-> g]>>
           ELSE LET once == SelectSeq(Match(re[2], s, p, g), LAMBDA w : w.e > p)
                    lo == IF re[3] > 0 THEN re[3] - 1 ELSE 0
                IN Continue(once, 1, <<Rep(re[2], lo, re[4] - 1)>>, s)
                   \o (IF re[3] = 0 THEN <<[e |-> p, g |-> g]>> ELSE <<>>)
      [] re[1] = "grp" ->
           LET ways == Match(re[3], s, p, g)
           IN [i \in 1..Len(ways) |->
                 [e |-> ways[i].e, g |-> [ways[i].g EXCEPT ![re[2]] = <<p, ways[i].e>>]]]

\* String.prototype.match without the g flag: the leftmost match, and at that
\* position the first way; [found, start, e, g]
FirstMatchFrom(re, s, p) ==
    LET starts == {q \in p..(Len(s) + 1) : Match(re, s, q, NoGroups) # <<>>} IN
    IF starts = {} THEN [found |-> FALSE, start |-> 0, e |-> 0, g |-> NoGroups]
    ELSE LET q == CHOOSE q \in starts : \A r \in starts : q <= r
             ways == Match(re, s, q, NoGroups)
         IN [found |-> TRUE, start |-> q, e |-> ways[1].e, g |-> ways[1].g]

FirstMatch(re, s) == FirstMatchFrom(re, s, 1)

\* the text of capture group n of a match m of s; <<>> when the group is unset
GroupText(s, m, n) ==
    IF m.g[n] = <<0, 0>> THEN <<>> ELSE SubSeq(s, m.g[n][1], m.g[n][2] - 1)

\* String.prototype.replace(re, '') with the g flag
RECURSIVE RemoveAllFrom(_, _, _)
RemoveAllFrom(re, s, p) ==
    LET m == FirstMatchFrom(re, s, p) IN
    IF ~m.found \/ m.start > Len(s) THEN SubSeq(s, p, Len(s))
    ELSE SubSeq(s, p, m.start - 1) \o RemoveAllFrom(re, s, m.e)

RemoveAll(re, s) == RemoveAllFrom(re, s, 1)

\* String.prototype.match with the g flag: the matched texts, left to right
RECURSIVE MatchAllFrom(_, _, _)
MatchAllFrom(re, s, p) ==
    LET m == FirstMatchFrom(re, s, p) IN
    IF ~m.found \/ m.start > Len(s) THEN <<>>
    ELSE <<SubSeq(s, m.start, m.e - 1)>> \o MatchAllFrom(re, s, m.e)

MatchAll(re, s) == MatchAllFrom(re, s, 1)

\* a literal of a pattern without the i flag
LitCS(text) == Sq([i \in 1..Len(text) |-> Cls({text[i]})])

AltLits(literals) == Alt([i \in 1..Len(literals) |-> Lit(literals[i])])

DigitValue(c) == (CHOOSE i \in 1..10 : Digits[i] = c) - 1

\* parseInt on a string of decimal digits
RECURSIVE parseInt(_)
parseInt(ds) ==
    IF ds = <<>> THEN 0
    ELSE 10 * parseInt(SubSeq(ds, 1, Len(ds) - 1)) + DigitValue(ds[Len(ds)])

WS1 == Plus(Cls({" "}))                            \* \s+
Digit == Cls(Range(Digits))                         \* \d
Letter == Cls(Range(UpperCase) \cup Range(LowerCase))   \* [A-Z] or [a-z] under /i
\* [A-Z][a-z]+(?:\s+[A-Z][a-z]+)?
NameRe == Sq(<<Letter, Plus(Letter), Opt(Sq(<<WS1, Letter, Plus(Letter)>>))>>)
\* (\d+)(?::(\d+))? with capture groups n and n + 1
ClockRe(n) == Sq(<<Grp(n, Plus(Digit)), Opt(Sq(<<Lit(<<":">>), Grp(n + 1, Plus(Digit))>>))>>)
\* \d+(?::\d+)?
ClockNoGroupRe == Sq(<<Plus(Digit), Opt(Sq(<<Lit(<<":">>), Plus(Digit)>>))>>)
----------------------------------------------------------------------------
(* Query analysis of intelligentSearchTool.execute, part_002 624-717 *)

\* undefined, for an optional number (timeRange.startTime, transcript.end_time)
NoTime == -1

\* a transcript segment with the optional end_time of ExtendedTranscript
TSeg(t, end, spk, ws) ==
    [start_time |-> t, end_time |-> end, speaker |-> spk, words |-> ws]

\* args.filters; an absent filter is <<>> (speaker) or NoTime
Filters(spk, start, end) == [speaker |-> spk, startTime |-> start, endTime |-> end]

timePatterns ==
    << [re |-> Sq(<<Lit(<<"b", "e", "t", "w", "e", "e", "n">>), WS1, ClockRe(1), WS1,
                    AltLits(<<<<"a", "n", "d">>, <<"t", "o">>>>), WS1, ClockRe(3)>>), type |-> "range"],
       [re |-> Sq(<<Lit(<<"a", "f", "t", "e", "r">>), WS1, ClockRe(1)>>), type |-> "after"],
       [re |-> Sq(<<Lit(<<"b", "e", "f", "o", "r", "e">>), WS1, ClockRe(1)>>), type |-> "before"],
       [re |-> Sq(<<Lit(<<"a", "r", "o", "u", "n", "d">>), WS1, ClockRe(1)>>), type |-> "around"] >>

\* mutant: the seconds after the colon are ignored
ClockSecondsMinutesOnly(s, m, n) == parseInt(GroupText(s, m, n)) * 60

\* parseInt(match[n]) * 60 + (match[n + 1] ? parseInt(match[n + 1]) : 0)
ClockSeconds(s, m, n) ==
    parseInt(GroupText(s, m, n)) * 60
    + (IF GroupText(s, m, n + 1) # <<>> THEN parseInt(GroupText(s, m, n + 1)) ELSE 0)

ApplyTimePattern(type, query, m, timeRange) ==
    CASE type = "range" ->
           [startTime |-> ClockSeconds(query, m, 1), endTime |-> ClockSeconds(query, m, 3)]
      [] type = "after" -> [timeRange EXCEPT !.startTime = ClockSeconds(query, m, 1)]
      [] type = "before" -> [timeRange EXCEPT !.endTime = ClockSeconds(query, m, 1)]
      [] type = "around" ->
           [startTime |-> Max2(0, ClockSeconds(query, m, 1) - 60),
            endTime |-> ClockSeconds(query, m, 1) + 60]

\* the loop over timePatterns (653-675): the first pattern that matches is
\* applied to timeRange, whatever the filters had set
RECURSIVE extractTimeRange(_, _, _)
extractTimeRange(query, timeRange, i) ==
    IF i > Len(timePatterns) THEN timeRange
    ELSE LET m == FirstMatch(timePatterns[i].re, query) IN
         IF m.found THEN ApplyTimePattern(timePatterns[i].type, query, m, timeRange)
         ELSE extractTimeRange(query, timeRange, i + 1)

WhWords == AltLits(<<<<"w", "h", "a", "t">>, <<"w", "h", "e", "n">>, <<"w", "h", "e", "r", "e">>, <<"h", "o", "w">>, <<"w", "h", "y">>>>)
SayWords == AltLits(<<<<"s", "a", "y">>, <<"t", "a", "l", "k">>, <<"s", "p", "e", "a", "k">>, <<"m", "e", "n", "t", "i", "o", "n">>, <<"d", "i", "s", "c", "u", "s", "s">>>>)
OpinionWords == AltLits(<<<<"s", "t", "a", "t", "e", "m", "e", "n", "t", "s">>, <<"c", "o", "m", "m", "e", "n", "t", "s">>, <<"o", "p", "i", "n", "i", "o", "n", "s">>, <<"t", "h", "o", "u", "g", "h", "t", "s">>>>)
SpokeWords == AltLits(<<<<"s", "p", "o", "k", "e">>, <<"s", "a", "i", "d">>, <<"m", "e", "n", "t", "i", "o", "n", "e", "d">>, <<"d", "i", "s", "c", "u", "s", "s", "e", "d">>>>)

speakerPatterns ==
    << Sq(<<WhWords, Lit(<<" ", "d", "i", "d", " ">>), Grp(1, NameRe), Lit(<<" ">>), SayWords>>),
       Sq(<<OpinionWords, Lit(<<" ">>), AltLits(<<<<"f", "r", "o", "m">>, <<"b", "y">>>>), Lit(<<" ">>),
            Grp(1, NameRe)>>),
       Sq(<<Grp(1, NameRe), Lit(<<"'", "s">>), Lit(<<" ">>), OpinionWords>>),
       Sq(<<Lit(<<"w", "h", "e", "n", " ">>), Grp(1, NameRe), Lit(<<" ">>), SpokeWords>>) >>

\* the loop over speakerPatterns (688-695); <<>> when no pattern matches
RECURSIVE extractSpeaker(_, _)
extractSpeaker(query, i) ==
    IF i > Len(speakerPatterns) THEN <<>>
    ELSE LET m == FirstMatch(speakerPatterns[i], query) IN
         IF m.found /\ GroupText(query, m, 1) # <<>> THEN GroupText(query, m, 1)
         ELSE extractSpeaker(query, i + 1)

HexDash == Cls({"a", "b", "c", "d", "e", "f", "A", "B", "C", "D", "E", "F", "-"}
               \cup Range(Digits))

\* the chain of replace(..., '') calls (699-709), in order
stripPatterns ==
    << Sq(<<Lit(<<"i", "n">>), WS1,
            AltLits(<<<<"s", "a", "l", "e", "s">>, <<"p", "s", "y", "c", "h", "i", "a", "t", "r", "i", "c">>, <<"s", "t", "a", "n", "d", "u", "p">>, <<"i", "n", "t", "e", "r", "v", "i", "e", "w">>, <<"p", "r", "o", "d", "u", "c", "t">>,
                      <<"p", "l", "a", "n", "n", "i", "n", "g">>>>), WS1, Lit(<<"m", "e", "e", "t", "i", "n", "g">>), Opt(Lit(<<"s">>))>>),
       Alt(<< Sq(<<Lit(<<"f", "r", "o", "m">>), WS1, Lit(<<"y", "e", "s", "t", "e", "r", "d", "a", "y">>)>>),
              Sq(<<Lit(<<"l", "a", "s", "t">>), WS1, AltLits(<<<<"w", "e", "e", "k">>, <<"d", "a", "y">>, <<"m", "o", "n", "t", "h">>>>)>>),
              Sq(<<Lit(<<"t", "h", "i", "s">>), WS1, AltLits(<<<<"m", "o", "n", "t", "h">>, <<"q", "u", "a", "r", "t", "e", "r">>>>)>>) >>),
       Sq(<<Lit(<<"w", "h", "e", "r", "e">>), WS1, NameRe, WS1,
            AltLits(<<<<"s", "p", "e", "a", "k">>, <<"s", "a", "i", "d">>, <<"t", "a", "l", "k">>, <<"m", "e", "n", "t", "i", "o", "n">>>>)>>),
       Sq(<<AltLits(<<<<"m", "e", "e", "t", "i", "n", "g">>, <<"b", "o", "t">>>>), WS1, AltLits(<<<<"i", "d">>, <<"u", "u", "i", "d">>>>),
            Plus(Cls({" ", ":"})), HexDash, HexDash, HexDash, HexDash, HexDash, HexDash,
            HexDash, HexDash, Star(HexDash)>>),
       Sq(<<Lit(<<"b", "e", "t", "w", "e", "e", "n">>), WS1, ClockNoGroupRe, WS1, AltLits(<<<<"a", "n", "d">>, <<"t", "o">>>>),
            WS1, ClockNoGroupRe>>),
       Sq(<<AltLits(<<<<"a", "f", "t", "e", "r">>, <<"b", "e", "f", "o", "r", "e">>, <<"a", "r", "o", "u", "n", "d">>>>), WS1, ClockNoGroupRe>>),
       Sq(<<WhWords, Lit(<<" ", "d", "i", "d", " ">>), NameRe, Lit(<<" ">>), SayWords>>),
       Sq(<<OpinionWords, Lit(<<" ">>), AltLits(<<<<"f", "r", "o", "m">>, <<"b", "y">>>>), Lit(<<" ">>), NameRe>>),
       Sq(<<NameRe, Lit(<<"'", "s">>), Lit(<<" ">>), OpinionWords>>),
       Sq(<<Lit(<<"w", "h", "e", "n", " ">>), NameRe, Lit(<<" ">>), SpokeWords>>) >>

RECURSIVE StripFrom(_, _)
StripFrom(s, i) ==
    IF i > Len(stripPatterns) THEN s ELSE StripFrom(RemoveAll(stripPatterns[i], s), i + 1)

\* searchTerms (699-715): the stripped, trimmed query, or the query itself
\* when stripping leaves nothing
extractSearchTerms(query) ==
    LET cleaned == trim(StripFrom(query, 1)) IN IF cleaned = <<>> THEN query ELSE cleaned

\* speaker, timeRange and searchTerms as execute derives them (626-715)
ParseQuery(query, filters) ==
    LET timeRange == extractTimeRange(query,
                        [startTime |-> filters.startTime, endTime |-> filters.endTime], 1)
    IN [speaker |-> IF filters.speaker # <<>> THEN filters.speaker
                    ELSE extractSpeaker(query, 1),
        startTime |-> timeRange.startTime,
        endTime |-> timeRange.endTime,
        searchTerms |-> extractSearchTerms(query)]

----------------------------------------------------------------------------
(* Segment filters of the search tools *)

\* the time-range filter of searchVideoSegment (474-489)
InTimeRange(transcript, startTime, endTime) ==
    LET segEnd == IF transcript.end_time # NoTime THEN transcript.end_time
                  ELSE transcript.start_time + 5
    IN /\ ~(startTime # NoTime /\ transcript.start_time < startTime)
       /\ ~(endTime # NoTime /\ segEnd > endTime)

\* s.split(' ')[0]
RECURSIVE FirstWord(_)
FirstWord(s) ==
    IF s = <<>> \/ s[1] = " " THEN <<>> ELSE <<s[1]>> \o FirstWord(Tail(s))

\* the speaker filter of searchVideoSegment (491-527)
SpeakerFilter(transcripts, filtered, speaker) ==
    LET allSpeakers == {trim(transcripts[i].speaker) :
                          i \in {j \in 1..Len(transcripts) : transcripts[j].speaker # <<>>}}
        speakerLower == toLowerCase(speaker)
        matchingSpeakers ==
            {s \in allSpeakers :
                \/ includes(toLowerCase(s), speakerLower)
                \/ includes(speakerLower, FirstWord(toLowerCase(s)))}
    IN IF \E s \in allSpeakers : toLowerCase(s) = speakerLower
       THEN SelectSeq(filtered, LAMBDA t : toLowerCase(t.speaker) = speakerLower)
       ELSE IF matchingSpeakers # {}
       THEN SelectSeq(filtered, LAMBDA t : t.speaker \in matchingSpeakers)
       ELSE SelectSeq(filtered, LAMBDA t : includes(toLowerCase(t.speaker), speakerLower))

\* filteredTranscripts of searchVideoSegment (471-527); speaker <<>> is absent
videoSegmentFilter(transcripts, startTime, endTime, speaker) ==
    LET timeFiltered ==
            IF startTime # NoTime \/ endTime # NoTime
            THEN SelectSeq(transcripts, LAMBDA t : InTimeRange(t, startTime, endTime))
            ELSE transcripts
    IN IF speaker # <<>> THEN SpeakerFilter(transcripts, timeFiltered, speaker)
       ELSE timeFiltered

\* speakerMatch of Tier 1 (762-766): over all the transcripts, fuzzy only
tier1SpeakerMatch(transcripts, speaker) ==
    LET speakerLower == toLowerCase(speaker) IN
    SelectSeq(transcripts, LAMBDA t :
        \/ includes(toLowerCase(t.speaker), speakerLower)
        \/ includes(speakerLower, FirstWord(toLowerCase(t.speaker))))

\* filteredByTerms of Tier 1 (769-778)
tier1FilterByTerms(segments, searchTerms) ==
    LET searchTermWords == splitWhitespace(toLowerCase(searchTerms)) IN
    SelectSeq(segments, LAMBDA t :
        \E k \in 1..Len(searchTermWords) :
            includes(toLowerCase(SegmentText(t)), searchTermWords[k]))

\* searchWords of Tier 3 (837)
tier3SearchWords(searchTerms) ==
    SelectSeq(splitWhitespace(toLowerCase(searchTerms)), LAMBDA w : Len(w) > 2)

\* multiTermResults of Tier 3 (846-857)
tier3MultiTerm(transcripts, searchWords) ==
    SelectSeq(transcripts, LAMBDA t :
        Cardinality({k \in 1..Len(searchWords) :
                        includes(toLowerCase(SegmentText(t)), searchWords[k])})
          >= Max2(1, Len(searchWords) \div 2))

\* results of searchTranscript (139-144)
transcriptHits(transcripts, query) ==
    SelectSeq(transcripts, LAMBDA t :
        includes(toLowerCase(SegmentText(t)), toLowerCase(query)))

----------------------------------------------------------------------------
(* Recent-bots tracking: TinyDb.trackBot and updateRecentBots *)

TinyDbMax == 50
RecentIdsMax == 5

\* mutant: an existing record is updated where it stands
trackBotInPlace(records, id) ==
    IF \E i \in 1..Len(records) : records[i].id = id
    THEN [i \in 1..Len(records) |->
            IF records[i].id = id
            THEN [id |-> id, accessCount |-> records[i].accessCount + 1]
            ELSE records[i]]
    ELSE LET added == <<[id |-> id, accessCount |-> 1]>> \o records
         IN IF Len(added) > TinyDbMax THEN SubSeq(added, 1, TinyDbMax) ELSE added

\* TinyDb.trackBot on the record list (tinyDb.ts 79-127)
trackBot(records, id) ==
    IF \E i \in 1..Len(records) : records[i].id = id
    THEN LET existingIndex == CHOOSE i \in 1..Len(records) :
                                 /\ records[i].id = id
                                 /\ \A j \in 1..(i - 1) : records[j].id # id
         IN <<[id |-> id, accessCount |-> records[existingIndex].accessCount + 1]>>
            \o SubSeq(records, 1, existingIndex - 1)
            \o SubSeq(records, existingIndex + 1, Len(records))
    ELSE LET added == <<[id |-> id, accessCount |-> 1]>> \o records
         IN IF Len(added) > TinyDbMax THEN SubSeq(added, 1, TinyDbMax) ELSE added

\* one call db.trackBot({ id }) on the TinyDb instance
Db_TrackBot(id) ==
    /\ dbRecords' = trackBot(dbRecords, id)
    /\ dbCalls' = Append(dbCalls, id)

\* mutant: an exception of the store escapes the tracking step
trackStepNoCatch(sessionDefined, storeThrows, recentIds, records, botId) ==
    IF ~sessionDefined
    THEN [recentIds |-> recentIds, records |-> records, escaped |-> FALSE]
    ELSE LET moved == <<botId>> \o SelectSeq(recentIds, LAMBDA id : id # botId)
             kept == SubSeq(moved, 1, Min2(RecentIdsMax, Len(moved)))
         IN IF storeThrows
            THEN [recentIds |-> kept, records |-> records, escaped |-> TRUE]
            ELSE [recentIds |-> kept, records |-> trackBot(records, botId),
                  escaped |-> FALSE]

\* try { updateRecentBots(session, botId, metadata) } catch (e) { log.warn }
\* (731-735 with 930-966): session.recentBotIds is updated first, then
\* db.trackBot; an exception of the store is caught inside updateRecentBots.
\* escaped says whether an exception leaves the tracking step.
trackStep(sessionDefined, storeThrows, recentIds, records, botId) ==
    IF ~sessionDefined
    THEN [recentIds |-> recentIds, records |-> records, escaped |-> FALSE]
    ELSE LET moved == <<botId>> \o SelectSeq(recentIds, LAMBDA id : id # botId)
             kept == SubSeq(moved, 1, Min2(RecentIdsMax, Len(moved)))
         IN IF storeThrows
            THEN [recentIds |-> kept, records |-> records, escaped |-> FALSE]
            ELSE [recentIds |-> kept, records |-> trackBot(records, botId),
                  escaped |-> FALSE]
----------------------------------------------------------------------------
(* Topic detection, links.ts 329-428 *)

\* \w and \s
WordChars == Range(UpperCase) \cup Range(LowerCase) \cup Range(Digits) \cup {"_"}

\* a Record<string, number> as the list of its own entries [k, n] in
\* insertion order; Bump is obj[key] = (obj[key] || 0) + w
Bump(obj, key, w) ==
    IF \E i \in 1..Len(obj) : obj[i].k = key
    THEN [i \in 1..Len(obj) |-> IF obj[i].k = key THEN [k |-> key, n |-> obj[i].n + w]
                                ELSE obj[i]]
    ELSE Append(obj, [k |-> key, n |-> w])

RECURSIVE BumpAll(_, _, _)
BumpAll(obj, keys, w) ==
    IF keys = <<>> THEN obj ELSE BumpAll(Bump(obj, Head(keys), w), Tail(keys), w)

\* an integer-like key ("7", "2024"): Object.entries lists these first, in
\* ascending numeric order, before the other keys in insertion order
IsArrayIndex(key) ==
    /\ key # <<>>
    /\ Len(key) <= 9
    /\ \A i \in 1..Len(key) : key[i] \in Range(Digits)
    /\ (Len(key) > 1 => key[1] # "0")

\* Object.entries
Entries(obj) ==
    LET idx == SelectSeq(obj, LAMBDA e : IsArrayIndex(e.k))
        rest == SelectSeq(obj, LAMBDA e : ~IsArrayIndex(e.k))
    IN StableSortByKeys(idx, [i \in 1..Len(idx) |-> parseInt(idx[i].k)]) \o rest

\* words.slice(i, i + size).join(' ') for i = 0 .. words.length - size, kept
\* when longer than 5 characters
PhrasesOfSize(words, size) ==
    IF Len(words) < size THEN <<>>
    ELSE SelectSeq([i \in 1..(Len(words) - size + 1) |->
                       join(SubSeq(words, i, i + size - 1), <<" ">>)],
                   LAMBDA phrase : Len(phrase) > 5)

\* findRepeatedPhrases (404-428)
findRepeatedPhrases(text) ==
    LET normalizedText == SelectSeq(toLowerCase(text),
                                    LAMBDA c : c \in WordChars \/ IsSpace(c))
        words == SelectSeq(splitWhitespace(normalizedText), LAMBDA w : Len(w) > 2)
    IN BumpAll(<<>>, PhrasesOfSize(words, 2) \o PhrasesOfSize(words, 3), 1)

\* [a-z0-9\s]{3,30} under the i flag, as capture group 1
TopicGroup ==
    Grp(1, Rep(Cls(Range(UpperCase) \cup Range(LowerCase) \cup Range(Digits) \cup {" "}),
               3, 30))

introPatterns ==
    << Sq(<<AltLits(<<<<"t", "a", "l", "k">>, <<"t", "a", "l", "k", "i", "n", "g">>, <<"d", "i", "s", "c", "u", "s", "s">>, <<"d", "i", "s", "c", "u", "s", "s", "i", "n", "g">>, <<"f", "o", "c", "u", "s">>,
                      <<"f", "o", "c", "u", "s", "i", "n", "g">>, <<"a", "b", "o", "u", "t">>, <<"r", "e", "g", "a", "r", "d", "i", "n", "g">>>>), WS1, TopicGroup>>),
       Sq(<<AltLits(<<<<"m", "a", "i", "n">>, <<"k", "e", "y">>, <<"i", "m", "p", "o", "r", "t", "a", "n", "t">>>>), WS1,
            AltLits(<<<<"t", "o", "p", "i", "c">>, <<"p", "o", "i", "n", "t">>, <<"i", "s", "s", "u", "e">>, <<"c", "o", "n", "c", "e", "r", "n">>>>), WS1,
            AltLits(<<<<"i", "s">>, <<"w", "a", "s">>, <<"b", "e", "i", "n", "g">>>>), WS1, TopicGroup>>),
       Sq(<<AltLits(<<<<"r", "e", "l", "a", "t", "e", "d", " ", "t", "o">>, <<"c", "o", "n", "c", "e", "r", "n", "i", "n", "g">>, <<"w", "i", "t", "h", " ", "r", "e", "g", "a", "r", "d", "s", " ", "t", "o">>>>), WS1,
            TopicGroup>>) >>

Upper == Cls(Range(UpperCase))
Lower == Cls(Range(LowerCase))

nounPhrasePatterns ==
    << Sq(<<Upper, Plus(Lower), WS1,
            Alt(<<Sq(<<Plus(Lower), LitCS(<<"i", "n", "g">>)>>), Sq(<<Plus(Lower), LitCS(<<"m", "e", "n", "t">>)>>),
                  Sq(<<Plus(Lower), LitCS(<<"t", "i", "o", "n">>)>>)>>)>>),
       Sq(<<Upper, Plus(Lower), WS1, Upper, Plus(Lower)>>),
       Sq(<<AltLits(<<<<"t", "h", "e">>, <<"o", "u", "r">>, <<"y", "o", "u", "r">>, <<"t", "h", "e", "i", "r">>>>), WS1,
            Plus(Letter), WS1, Plus(Letter)>>) >>

\* the topics the intro patterns find in one sentence (358-373)
RECURSIVE IntroTopicsOf(_, _)
IntroTopicsOf(sentence, i) ==
    IF i > Len(introPatterns) THEN <<>>
    ELSE LET matches == FirstMatch(introPatterns[i], sentence)
             topic == trim(GroupText(sentence, matches, 1))
         IN (IF matches.found /\ GroupText(sentence, matches, 1) # <<>> /\ Len(topic) > 3
             THEN <<topic>> ELSE <<>>)
            \o IntroTopicsOf(sentence, i + 1)

\* the noun phrases found in the whole text (384-391)
RECURSIVE NounPhrasesOf(_, _)
NounPhrasesOf(allText, i) ==
    IF i > Len(nounPhrasePatterns) THEN <<>>
    ELSE SelectSeq(MatchAll(nounPhrasePatterns[i], allText), LAMBDA m : Len(m) > 5)
         \o NounPhrasesOf(allText, i + 1)

TopTopicsPerChunk == 10

\* identifyTopicsWithAI (329-399)
identifyTopicsWithAI(transcripts) ==
    IF transcripts = <<>> THEN <<>>
    ELSE LET allText == join([i \in 1..Len(transcripts) |-> SegmentText(transcripts[i])],
                             <<" ">>)
             sentences == SelectSeq(SplitOn(allText, {".", "!", "?"}),
                                    LAMBDA s : Len(trim(s)) > 0)
             phraseFrequency == findRepeatedPhrases(allText)
             repeated == SelectSeq(Entries(phraseFrequency), LAMBDA e : e.n > 1)
             topics1 == BumpAll(<<>>, [i \in 1..Len(repeated) |-> repeated[i].k], 2)
             topics2 == BumpAll(topics1,
                          Flatten([i \in 1..Len(sentences) |-> IntroTopicsOf(sentences[i], 1)]),
                          3)
             topics3 == BumpAll(topics2, NounPhrasesOf(allText, 1), 1)
             entries == Entries(topics3)
             sortedTopics == StableSortByKeys(entries, [i \in 1..Len(entries) |-> 0 - entries[i].n])
         IN [i \in 1..Min2(TopTopicsPerChunk, Len(sortedTopics)) |-> sortedTopics[i].k]
----------------------------------------------------------------------------
(* findKeyMomentsTool.execute, links.ts 160-295 *)

ChunkDurationDefault == 300

\* STEP 2: per chunk, content candidates then conversation candidates
RECURSIVE CollectCandidates(_, _)
CollectCandidates(chunks, k) ==
    IF k > Len(chunks) THEN <<>>
    ELSE findImportantSegments(chunks[k]) \o findConversationalExchanges(chunks[k])
         \o CollectCandidates(chunks, k + 1)

\* the loop of STEP 2 for the topics (224-234)
RECURSIVE CollectTopics(_, _, _, _)
CollectTopics(chunks, k, detect, acc) ==
    IF k > Len(chunks) THEN acc
    ELSE CollectTopics(chunks, k + 1, detect,
                       IF detect THEN acc \o identifyTopicsWithAI(chunks[k]) ELSE acc)

\* mutant: only a repetition next to its first occurrence is removed
uniqueTopicsAdjacent(topics) ==
    SelectSeq([i \in 1..Len(topics) |->
                  IF i > 1 /\ topics[i - 1] = topics[i] THEN <<"", "dup">> ELSE topics[i]],
              LAMBDA t : t # <<"", "dup">>)

\* [...new Set(allMeetingTopics)]: the first occurrence of each string, in order
uniqueTopics(topics) ==
    LET first == {i \in 1..Len(topics) : \A j \in 1..(i - 1) : topics[j] # topics[i]}
    IN [n \in 1..Cardinality(first) |->
          topics[CHOOSE i \in first : Cardinality({j \in first : j < i}) = n - 1]]

\* topicLimit (277)
topicLimit(g) == IF g = "high" THEN 10 ELSE IF g = "medium" THEN 7 ELSE 5

\* topTopics (245, 276-278)
shownTopics(topics, g) ==
    LET unique == uniqueTopics(topics)
    IN SubSeq(unique, 1, Min2(topicLimit(g), Len(unique)))

KMResult(kind, moments) == [kind |-> kind, moments |-> moments]

KMEmpty ==
    /\ sortedTranscripts = <<>>
    /\ contextChunks = <<>>
    /\ candidateSegments = <<>>
    /\ rankedSegments = <<>>
    /\ dedupedSegments = <<>>
    /\ finalSegments = <<>>
    /\ kmResult = KMResult("none", <<>>)
    /\ allMeetingTopics = <<>>
    /\ topTopics = <<>>

\* createValidSession and the authentication-failure return (169-184)
KM_Auth ==
    /\ kmPc = "auth"
    /\ \E cred \in CredCases :
          LET validSession == createValidSession(cred[1], cred[2], cred[3]) IN
          IF validSession = NoKey
          THEN /\ kmResult' = KMResult("authFailed", <<>>)
               /\ kmPc' = "done"
          ELSE /\ kmPc' = "fetch"
               /\ UNCHANGED kmResult
    /\ UNCHANGED <<transcriptsIn, maxMoments, sortedTranscripts, contextChunks,
                   candidateSegments, allSegments, rankedSegments, dedupedSegments,
                   finalSegments>>
    /\ UNCHANGED <<argTopics, autoDetectTopics, granularity, allMeetingTopics, topTopics>>

\* the meeting_data request and the early returns (186-207)
KM_Fetch ==
    /\ kmPc = "fetch"
    /\ \E outcome \in {"ok", "throws", "noBot"} :
          IF outcome = "throws"
          THEN /\ kmResult' = KMResult("error", <<>>)
               /\ kmPc' = "done"
               /\ UNCHANGED sortedTranscripts
          ELSE IF outcome = "noBot"
          THEN /\ kmResult' = KMResult("noMeetingData", <<>>)
               /\ kmPc' = "done"
               /\ UNCHANGED sortedTranscripts
          ELSE IF Len(transcriptsIn) = 0
          THEN /\ kmResult' = KMResult("noTranscript", <<>>)
               /\ kmPc' = "done"
               /\ UNCHANGED sortedTranscripts
          ELSE /\ sortedTranscripts' = sortTranscripts(transcriptsIn)
               /\ kmPc' = "step1"
               /\ UNCHANGED kmResult
    /\ UNCHANGED <<transcriptsIn, maxMoments, contextChunks, candidateSegments,
                   allSegments, rankedSegments, dedupedSegments, finalSegments>>
    /\ UNCHANGED <<argTopics, autoDetectTopics, granularity, allMeetingTopics, topTopics>>

\* STEP 1 (221)
KM_Step1 ==
    /\ kmPc = "step1"
    /\ contextChunks' = groupTranscriptsIntoChunks(sortedTranscripts, ChunkDurationDefault)
    /\ kmPc' = "step2"
    /\ UNCHANGED <<transcriptsIn, maxMoments, sortedTranscripts, candidateSegments,
                   allSegments, rankedSegments, dedupedSegments, finalSegments, kmResult>>
    /\ UNCHANGED <<argTopics, autoDetectTopics, granularity, allMeetingTopics, topTopics>>

\* STEP 2 (224-242)
KM_Step2 ==
    /\ kmPc = "step2"
    /\ candidateSegments' = CollectCandidates(contextChunks, 1)
    /\ allMeetingTopics' = CollectTopics(contextChunks, 1, autoDetectTopics, argTopics)
    /\ kmPc' = "step3"
    /\ UNCHANGED <<transcriptsIn, maxMoments, sortedTranscripts, contextChunks,
                   allSegments, rankedSegments, dedupedSegments, finalSegments, kmResult>>
    /\ UNCHANGED <<argTopics, autoDetectTopics, granularity, topTopics>>

\* STEP 3 and STEP 4 (247-252)
KM_Step4 ==
    /\ kmPc = "step3"
    /\ allSegments' = scoreSegments(candidateSegments)
                        \o getStructuralSegments(sortedTranscripts)
    /\ kmPc' = "step5"
    /\ UNCHANGED <<transcriptsIn, maxMoments, sortedTranscripts, contextChunks,
                   candidateSegments, rankedSegments, dedupedSegments, finalSegments,
                   kmResult>>
    /\ UNCHANGED <<argTopics, autoDetectTopics, granularity, allMeetingTopics, topTopics>>

\* STEP 5 (254-256)
KM_Step5 ==
    /\ kmPc = "step5"
    /\ rankedSegments' = sortByImportance(allSegments)
    /\ dedupedSegments' = deduplicateSegments(sortByImportance(allSegments))
    /\ kmPc' = "step6"
    /\ UNCHANGED <<transcriptsIn, maxMoments, sortedTranscripts, contextChunks,
                   candidateSegments, allSegments, finalSegments, kmResult>>
    /\ UNCHANGED <<argTopics, autoDetectTopics, granularity, allMeetingTopics, topTopics>>

\* STEP 6 and the return (258-289)
KM_Step6 ==
    /\ kmPc = "step6"
    /\ finalSegments' = takeMoments(dedupedSegments, maxMoments)
    /\ kmResult' =
         LET final == takeMoments(dedupedSegments, maxMoments) IN
         IF Len(final) = 0 THEN KMResult("noKeyMoments", <<>>)
         ELSE KMResult("moments", [i \in 1..Len(final) |-> KeyMoment(final[i])])
    /\ topTopics' = IF Len(takeMoments(dedupedSegments, maxMoments)) = 0 THEN <<>>
                    ELSE shownTopics(allMeetingTopics, granularity)
    /\ kmPc' = "done"
    /\ UNCHANGED <<transcriptsIn, maxMoments, sortedTranscripts, contextChunks,
                   candidateSegments, allSegments, rankedSegments, dedupedSegments>>
    /\ UNCHANGED <<argTopics, autoDetectTopics, granularity, allMeetingTopics>>

----------------------------------------------------------------------------
(* intelligentSearchTool.execute as a state machine, part_002 599-926 *)

Runs == {1, 2}

\* args.botId of the invocation
BotId == "b1"

ApiOutcomes == {"ok", "throws"}

ISResult(form, segs, tier) == [form |-> form, segs |-> segs, tier |-> tier]
NoResult == ISResult("none", <<>>, 0)
NoParse == [speaker |-> <<>>, startTime |-> NoTime, endTime |-> NoTime,
            searchTerms |-> <<>>]

\* what a nested tool's execute returns
NestedResult(form, segs) == [form |-> form, segs |-> segs]

\* runs that share nothing are taken one after the other: run 2 moves when
\* run 1 has returned; concurrent invocations of one server process move in
\* any order
Turn(r) == isShare # "none" \/ r = 1 \/ isPc[1] = "done"

\* the TinyDb instance getTinyDb() gives run r (tinyDb.ts 163-172: one
\* instance per process) and the context.session of run r
StoreOf(r) == IF isShare = "none" THEN r ELSE 1
SessionOf(r) == IF isShare = "session" THEN 1 ELSE r

\* await apiRequest(validSession, "get", "/bots/meeting_data?bot_id=..."): the
\* k-th request of a run gets the answer the API gave to the k-th request
ApiCall(r, out) ==
    LET k == apiCalls[r] + 1 IN
    /\ out \in (IF k <= Len(apiTrace) THEN {apiTrace[k]} ELSE ApiOutcomes)
    /\ apiTrace' = (IF k <= Len(apiTrace) THEN apiTrace ELSE Append(apiTrace, out))
    /\ apiCalls' = [apiCalls EXCEPT ![r] = k]

\* the tracking a nested tool does after its apiRequest (452-458, 128-136):
\* its session is validSession, a fresh object that is always defined
NestedTrack(r, out) ==
    IF out = "ok" THEN trackStep(TRUE, isCtx[r].storeThrows, <<>>, recentBots[StoreOf(r)], BotId)
    ELSE [recentIds |-> <<>>, records |-> recentBots[StoreOf(r)], escaped |-> FALSE]

\* searchVideoSegmentTool.execute called with session validSession (416-588)
searchVideoSegmentExecute(out, escaped, transcripts, startTime, endTime, speaker) ==
    IF out = "throws" \/ escaped THEN NestedResult("error", <<>>)
    ELSE LET filteredTranscripts ==
                 videoSegmentFilter(transcripts, startTime, endTime, speaker)
         IN IF filteredTranscripts = <<>> THEN NestedResult("noVideoSegments", <<>>)
            ELSE NestedResult("videoSegments", filteredTranscripts)

\* searchTranscriptTool.execute called with session validSession (98-168)
searchTranscriptExecute(out, escaped, transcripts, query) ==
    IF out = "throws" \/ escaped THEN NestedResult("error", <<>>)
    ELSE LET results == transcriptHits(transcripts, query)
         IN IF results = <<>> THEN NestedResult("noResults", <<>>)
            ELSE NestedResult("transcriptResults", results)

\* what the text of a result of each form is made of: the three content
\* blocks of 796-811, 879-894 and 567-585, and the one string of 150-163
ResultParts(form) ==
    IF form \in {"speakerTerms", "multiTerm", "videoSegments"}
    THEN {"count", "watchLink", "segmentText", "segmentLink"}
    ELSE IF form = "transcriptResults" THEN {"count", "segmentText"}
    ELSE {}

\* the t= of the "Watch from beginning" link: Math.floor of the start time of
\* element 0 of the matches
WatchLinkTime(result) ==
    IF "watchLink" \in ResultParts(result.form) THEN result.segs[1].start_time ELSE NoTime

\* the t= of the "Segment link" lines, one per match
SegmentLinkTimes(result) ==
    IF "segmentLink" \in ResultParts(result.form)
    THEN [i \in 1..Len(result.segs) |-> result.segs[i].start_time]
    ELSE <<>>

\* typeof r === 'object' && r.content && r.content.length > 0 &&
\* !r.content[0].text.includes("No matching video segments found")
HasVideoSegments(nested) == nested.form = "videoSegments"

Return(r, result) ==
    /\ isResult' = [isResult EXCEPT ![r] = result]
    /\ isPc' = [isPc EXCEPT ![r] = "done"]

Goto(r, pc) ==
    /\ isPc' = [isPc EXCEPT ![r] = pc]
    /\ UNCHANGED isResult

ISInputs == <<isTool, isQuery, isFilters, isTranscripts, isCtx, isShare>>

\* searchTranscriptTool.execute invoked as a tool of its own (98-168): the
\* session is context.session, the query is args.query
ST_Execute(r) ==
    /\ isTool = "searchTranscript"
    /\ isPc[r] = "start"
    /\ Turn(r)
    /\ IF createValidSession(isCtx[r].sessionKey, isCtx[r].envKey, isCtx[r].configKey)
            = NoKey
       THEN /\ Return(r, ISResult("authFailed", <<>>, 0))
            /\ UNCHANGED <<apiTrace, apiCalls, recentBots, recentBotIds>>
       ELSE \E out \in ApiOutcomes :
              LET t == IF out = "ok"
                       THEN trackStep(isCtx[r].sessionDefined, isCtx[r].storeThrows,
                                      recentBotIds[SessionOf(r)], recentBots[StoreOf(r)], BotId)
                       ELSE [recentIds |-> recentBotIds[SessionOf(r)], records |-> recentBots[StoreOf(r)],
                             escaped |-> FALSE]
                  result == searchTranscriptExecute(out, t.escaped, isTranscripts, isQuery)
              IN /\ ApiCall(r, out)
                 /\ recentBots' = [recentBots EXCEPT ![StoreOf(r)] = t.records]
                 /\ recentBotIds' = [recentBotIds EXCEPT ![SessionOf(r)] = t.recentIds]
                 /\ Return(r, ISResult(result.form, result.segs, 0))
    /\ UNCHANGED <<ISInputs, isParsed>>

\* searchVideoSegmentTool.execute invoked as a tool of its own (416-588):
\* startTime, endTime and speaker are its arguments
VS_Execute(r) ==
    /\ isTool = "searchVideoSegment"
    /\ isPc[r] = "start"
    /\ Turn(r)
    /\ IF createValidSession(isCtx[r].sessionKey, isCtx[r].envKey, isCtx[r].configKey)
            = NoKey
       THEN /\ Return(r, ISResult("authFailed", <<>>, 0))
            /\ UNCHANGED <<apiTrace, apiCalls, recentBots, recentBotIds>>
       ELSE \E out \in ApiOutcomes :
              LET t == IF out = "ok"
                       THEN trackStep(isCtx[r].sessionDefined, isCtx[r].storeThrows,
                                      recentBotIds[SessionOf(r)], recentBots[StoreOf(r)], BotId)
                       ELSE [recentIds |-> recentBotIds[SessionOf(r)], records |-> recentBots[StoreOf(r)],
                             escaped |-> FALSE]
                  result == searchVideoSegmentExecute(out, t.escaped, isTranscripts,
                                isFilters.startTime, isFilters.endTime, isFilters.speaker)
              IN /\ ApiCall(r, out)
                 /\ recentBots' = [recentBots EXCEPT ![StoreOf(r)] = t.records]
                 /\ recentBotIds' = [recentBotIds EXCEPT ![SessionOf(r)] = t.recentIds]
                 /\ Return(r, ISResult(result.form, result.segs, 0))
    /\ UNCHANGED <<ISInputs, isParsed>>

\* createValidSession, the authentication failure, and the derivation of
\* speaker, timeRange and searchTerms (606-717)
IS_Start(r) ==
    /\ isTool = "intelligentSearch"
    /\ isPc[r] = "start"
    /\ Turn(r)
    /\ LET validSession == createValidSession(isCtx[r].sessionKey, isCtx[r].envKey,
                                              isCtx[r].configKey)
       IN IF validSession = NoKey
          THEN /\ Return(r, ISResult("authFailed", <<>>, 0))
               /\ UNCHANGED isParsed
          ELSE /\ isParsed' = [isParsed EXCEPT ![r] = ParseQuery(isQuery, isFilters)]
               /\ Goto(r, "fetch")
    /\ UNCHANGED <<ISInputs, apiTrace, apiCalls, recentBots, recentBotIds>>

\* the meeting_data request and the tracking of the bot (719-735, 917-920)
IS_Fetch(r) ==
    /\ isPc[r] = "fetch"
    /\ Turn(r)
    /\ \E out \in ApiOutcomes :
          /\ ApiCall(r, out)
          /\ IF out = "throws"
             THEN /\ Return(r, ISResult("error", <<>>, 0))
                  /\ UNCHANGED <<recentBots, recentBotIds>>
             ELSE LET t == trackStep(isCtx[r].sessionDefined, isCtx[r].storeThrows,
                                     recentBotIds[SessionOf(r)], recentBots[StoreOf(r)], BotId)
                  IN /\ recentBots' = [recentBots EXCEPT ![StoreOf(r)] = t.records]
                     /\ recentBotIds' = [recentBotIds EXCEPT ![SessionOf(r)] = t.recentIds]
                     /\ IF t.escaped THEN Return(r, ISResult("error", <<>>, 0))
                        ELSE Goto(r, "tier1")
    /\ UNCHANGED <<ISInputs, isParsed>>

\* TIER 1: speaker and search terms (740-814)
IS_Tier1(r) ==
    /\ isPc[r] = "tier1"
    /\ Turn(r)
    /\ IF isParsed[r].speaker # <<>> /\ trim(isParsed[r].searchTerms) # <<>>
       THEN \E out \in ApiOutcomes :
              LET t == NestedTrack(r, out)
                  videoSegmentResult ==
                      searchVideoSegmentExecute(out, t.escaped, isTranscripts,
                          isParsed[r].startTime, isParsed[r].endTime, isParsed[r].speaker)
                  filteredByTerms ==
                      tier1FilterByTerms(
                          tier1SpeakerMatch(isTranscripts, isParsed[r].speaker),
                          isParsed[r].searchTerms)
              IN /\ ApiCall(r, out)
                 /\ recentBots' = [recentBots EXCEPT ![StoreOf(r)] = t.records]
                 /\ IF HasVideoSegments(videoSegmentResult) /\ filteredByTerms # <<>>
                    THEN Return(r, ISResult("speakerTerms", filteredByTerms, 1))
                    ELSE Goto(r, "tier2")
       ELSE /\ Goto(r, "tier2")
            /\ UNCHANGED <<apiTrace, apiCalls, recentBots>>
    /\ UNCHANGED <<ISInputs, isParsed, recentBotIds>>

\* TIER 2: speaker only (817-833)
IS_Tier2(r) ==
    /\ isPc[r] = "tier2"
    /\ Turn(r)
    /\ IF isParsed[r].speaker # <<>>
       THEN \E out \in ApiOutcomes :
              LET t == NestedTrack(r, out)
                  speakerResult ==
                      searchVideoSegmentExecute(out, t.escaped, isTranscripts,
                          isParsed[r].startTime, isParsed[r].endTime, isParsed[r].speaker)
              IN /\ ApiCall(r, out)
                 /\ recentBots' = [recentBots EXCEPT ![StoreOf(r)] = t.records]
                 /\ IF HasVideoSegments(speakerResult)
                    THEN Return(r, ISResult(speakerResult.form, speakerResult.segs, 2))
                    ELSE Goto(r, "tier3")
       ELSE /\ Goto(r, "tier3")
            /\ UNCHANGED <<apiTrace, apiCalls, recentBots>>
    /\ UNCHANGED <<ISInputs, isParsed, recentBotIds>>

\* TIER 3: multi-term search over the transcripts already fetched (836-894)
IS_Tier3(r) ==
    /\ isPc[r] = "tier3"
    /\ Turn(r)
    /\ LET searchWords == tier3SearchWords(isParsed[r].searchTerms)
           multiTermResults == tier3MultiTerm(isTranscripts, searchWords)
       IN IF /\ trim(isParsed[r].searchTerms) # <<>>
             /\ Len(searchWords) > 1
             /\ multiTermResults # <<>>
          THEN Return(r, ISResult("multiTerm", multiTermResults, 3))
          ELSE Goto(r, "tier4")
    /\ UNCHANGED <<ISInputs, isParsed, apiTrace, apiCalls, recentBots, recentBotIds>>

\* TIER 4: searchTranscript on the search terms, returned whatever it is
\* (897-905)
IS_Tier4(r) ==
    /\ isPc[r] = "tier4"
    /\ Turn(r)
    /\ IF trim(isParsed[r].searchTerms) # <<>>
       THEN \E out \in ApiOutcomes :
              LET t == NestedTrack(r, out)
                  result == searchTranscriptExecute(out, t.escaped, isTranscripts,
                                                    isParsed[r].searchTerms)
              IN /\ ApiCall(r, out)
                 /\ recentBots' = [recentBots EXCEPT ![StoreOf(r)] = t.records]
                 /\ Return(r, ISResult(result.form, result.segs, 4))
       ELSE /\ Goto(r, "tier5")
            /\ UNCHANGED <<apiTrace, apiCalls, recentBots>>
    /\ UNCHANGED <<ISInputs, isParsed, recentBotIds>>

\* TIER 5: searchVideoSegment as the last resort, returned whatever it is
\* (908-916)
IS_Tier5(r) ==
    /\ isPc[r] = "tier5"
    /\ Turn(r)
    /\ \E out \in ApiOutcomes :
          LET t == NestedTrack(r, out)
              result == searchVideoSegmentExecute(out, t.escaped, isTranscripts,
                            isParsed[r].startTime, isParsed[r].endTime, isParsed[r].speaker)
          IN /\ ApiCall(r, out)
             /\ recentBots' = [recentBots EXCEPT ![StoreOf(r)] = t.records]
             /\ Return(r, ISResult(result.form, result.segs, 5))
    /\ UNCHANGED <<ISInputs, isParsed, recentBotIds>>
----------------------------------------------------------------------------
(* searchTranscriptByTypeTool.execute as a state machine, part_002 175-293 *)

NoType == <<>>

\* a bot of GET /bots/all with the transcripts its meeting_data holds
ListedBot(uuid, meetingType, transcripts) ==
    [uuid |-> uuid, meetingType |-> meetingType, transcripts |-> transcripts]

\* what apiRequest does with the session it is given (client.ts 23-43): no
\* session, or a session without a key, throws before a request is sent
apiRequestSends(sessionDefined, key) == sessionDefined /\ key # NoKey

\* one apiRequest call: the endpoint, the key of the session passed (NoKey
\* when there is no session or no key in it), whether it was sent, and how
\* the backend answered
Request(endpoint, key, sent, outcome) ==
    [endpoint |-> endpoint, key |-> key, sent |-> sent, outcome |-> outcome]

\* filteredBots (201-205): bot.extra.meetingType equals args.meetingType,
\* ignoring case
filterByMeetingType(bots, meetingType) ==
    SelectSeq(bots, LAMBDA bot :
        /\ bot.meetingType # NoType
        /\ toLowerCase(bot.meetingType) = toLowerCase(meetingType))

\* the matches of one bot (240-255)
botResults(bot, query) ==
    LET results == transcriptHits(bot.transcripts, query)
    IN [i \in 1..Len(results) |->
          [bot_id |-> bot.uuid, start_time |-> results[i].start_time]]

\* allResults.sort((a, b) => a.start_time - b.start_time); slice(0, limit)
limitedResults(allResults, limit) ==
    LET sorted == StableSortByKeys(allResults,
                      [i \in 1..Len(allResults) |-> allResults[i].start_time])
    IN SubSeq(sorted, 1, Min2(limit, Len(sorted)))

BTResult(kind, results) == [kind |-> kind, results |-> results]

\* createValidSession and the authentication failure (186-199)
BT_Start ==
    /\ btPc = "start"
    /\ IF createValidSession(btIn.ctx.sessionKey, btIn.ctx.envKey, btIn.ctx.configKey) = NoKey
       THEN /\ btResult' = BTResult("authFailed", <<>>)
            /\ btPc' = "done"
       ELSE /\ btPc' = "list"
            /\ UNCHANGED btResult
    /\ UNCHANGED <<btIn, btLeft, btResults, btRequests, btRecentIds, dbVars>>

\* the listing request with validSession and the filter by type (201-218)
BT_List ==
    /\ btPc = "list"
    /\ \E out \in ApiOutcomes :
          LET validSession == createValidSession(btIn.ctx.sessionKey, btIn.ctx.envKey,
                                                 btIn.ctx.configKey)
              filteredBots == filterByMeetingType(btIn.bots, btIn.meetingType)
          IN /\ btRequests' = Append(btRequests, Request("all", validSession, TRUE, out))
             /\ IF out = "throws"
                THEN /\ btResult' = BTResult("error", <<>>)
                     /\ btPc' = "done"
                     /\ UNCHANGED btLeft
                ELSE IF filteredBots = <<>>
                THEN /\ btResult' = BTResult("noMeetings", <<>>)
                     /\ btPc' = "done"
                     /\ UNCHANGED btLeft
                ELSE /\ btLeft' = SubSeq(filteredBots, 1, Min2(btIn.limit, Len(filteredBots)))
                     /\ btPc' = "bots"
                     /\ UNCHANGED btResult
    /\ UNCHANGED <<btIn, btResults, btRecentIds, dbVars>>

\* one turn of the loop over the bots (221-262): the meeting_data request is
\* made with context.session, the bot is tracked, its matches are collected;
\* a failure skips the bot
BT_Bot ==
    /\ btPc = "bots"
    /\ btLeft # <<>>
    /\ LET bot == Head(btLeft)
           sends == apiRequestSends(btIn.ctx.sessionDefined, btIn.ctx.sessionKey)
       IN \E out \in (IF sends THEN ApiOutcomes ELSE {"throws"}) :
            /\ btRequests' = Append(btRequests,
                                 Request("meeting_data", btIn.ctx.sessionKey, sends, out))
            /\ IF out = "ok"
               THEN LET t == trackStep(btIn.ctx.sessionDefined, btIn.ctx.storeThrows,
                                       btRecentIds, dbRecords, bot.uuid)
                    IN /\ btRecentIds' = t.recentIds
                       /\ dbRecords' = t.records
                       /\ dbCalls' = IF btIn.ctx.sessionDefined /\ ~btIn.ctx.storeThrows
                                     THEN Append(dbCalls, bot.uuid) ELSE dbCalls
                       /\ btResults' = btResults \o botResults(bot, btIn.query)
               ELSE UNCHANGED <<btRecentIds, dbVars, btResults>>
            /\ btLeft' = Tail(btLeft)
    /\ UNCHANGED <<btIn, btPc, btResult>>

\* the sort, the limit and the return (264-288)
BT_Return ==
    /\ btPc = "bots"
    /\ btLeft = <<>>
    /\ LET allResults == limitedResults(btResults, btIn.limit)
       IN btResult' = IF allResults = <<>> THEN BTResult("noResults", <<>>)
                      ELSE BTResult("found", allResults)
    /\ btPc' = "done"
    /\ UNCHANGED <<btIn, btLeft, btResults, btRequests, btRecentIds, dbVars>>
----------------------------------------------------------------------------
(* The authenticate callback of the server, index.ts 160-195 *)

\* the value of an x-api-key header: absent, a string, or an array of strings
Header(kind, values) == [kind |-> kind, values |-> values]
NoHeader == Header("absent", <<>>)

\* JavaScript truthiness of a header value: an absent header and the empty
\* string are falsy, an array is truthy
Truthy(header) ==
    \/ header.kind = "array"
    \/ header.kind = "string" /\ header.values[1] # ""

\* (context.request?.headers && ...["x-api-key"]) || (context.headers && ...["x-api-key"])
headerApiKey(requestHeader, contextHeader) ==
    IF Truthy(requestHeader) THEN requestHeader ELSE contextHeader

\* Array.isArray(apiKey) ? apiKey[0] : apiKey, NoKey standing for undefined
keyValue(apiKey) == IF apiKey.values = <<>> THEN NoKey ELSE apiKey.values[1]

\* what authenticate does: status 200 stands for the session { apiKey }
\* returned, any other status for the Response thrown
ConnOut(status, apiKey) == [status |-> status, apiKey |-> apiKey]

\* authenticate: the Response thrown for a missing key is thrown inside the
\* try block, whose catch throws a Response of its own
authenticate(requestHeader, contextHeader, env) ==
    LET fromHeaders == headerApiKey(requestHeader, contextHeader)
        apiKey == IF ~Truthy(fromHeaders) /\ env # NoKey THEN Header("string", <<env>>)
                  ELSE fromHeaders
        thrown == ~Truthy(apiKey)
    IN IF thrown THEN ConnOut(500, NoKey)
       ELSE ConnOut(200, keyValue(apiKey))

Conn_Authenticate ==
    /\ connPc = "connect"
    /\ connOut' = authenticate(connIn.requestHeader, connIn.contextHeader, connIn.env)
    /\ connPc' = "done"
    /\ UNCHANGED connIn
----------------------------------------------------------------------------
(* Idle values for the parts a specification does not exercise *)

ChunkIdle ==
    /\ cIn = <<>>
    /\ cMax = 0
    /\ cOut = <<>>
    /\ cPc = "idle"

AuthIdle ==
    /\ authIn = [session |-> "undefined", env |-> NoKey, config |-> "absent"]
    /\ authPc = "idle"
    /\ authOut = NoKey

BtIdle ==
    /\ btIn = <<>>
    /\ btPc = "off"
    /\ btLeft = <<>>
    /\ btResults = <<>>
    /\ btRequests = <<>>
    /\ btRecentIds = <<>>
    /\ btResult = <<>>

ConnIdle ==
    /\ connIn = <<>>
    /\ connPc = "off"
    /\ connOut = <<>>

DbIdle ==
    /\ dbRecords = <<>>
    /\ dbCalls = <<>>

KMIdle ==
    /\ KMEmpty
    /\ transcriptsIn = <<>>
    /\ maxMoments = 0
    /\ argTopics = <<>>
    /\ autoDetectTopics = FALSE
    /\ granularity = "medium"
    /\ allSegments = <<>>
    /\ kmPc = "idle"

ISIdle ==
    /\ isTool = ""
    /\ isQuery = <<>>
    /\ isFilters = <<>>
    /\ isTranscripts = <<>>
    /\ isCtx = <<>>
    /\ isPc = <<>>
    /\ isParsed = <<>>
    /\ isResult = <<>>
    /\ apiTrace = <<>>
    /\ apiCalls = <<>>
    /\ recentBots = <<>>
    /\ recentBotIds = <<>>
    /\ isShare = "none"

----------------------------------------------------------------------------
(* Specification SpecChunk: the chunker on drawn inputs *)

MaxChunkSegs == 4
ChunkTimes == {0, 60, 61, 300, 301, 360, 601}
ChunkDurations == {0, 60, 300}
ChunkSpeakers == <<"A", "B", "A", "C", "B", "A">>

SortedTimes(n) ==
    {s \in [1..n -> ChunkTimes] : \A i \in 1..(n - 1) : s[i] <= s[i + 1]}

InitChunk ==
    /\ \E n \in 0..MaxChunkSegs : \E ts \in SortedTimes(n) :
          cIn = [i \in 1..n |-> Seg(ts[i], <<ChunkSpeakers[i]>>, <<>>)]
    /\ cMax \in ChunkDurations
    /\ cOut = <<>>
    /\ cPc = "call"
    /\ KMIdle
    /\ ISIdle
    /\ AuthIdle
    /\ DbIdle
    /\ BtIdle
    /\ ConnIdle

ApplyChunk ==
    /\ cPc = "call"
    /\ cOut' = groupTranscriptsIntoChunks(cIn, cMax)
    /\ cPc' = "returned"
    /\ UNCHANGED <<cIn, cMax>>
    /\ UNCHANGED <<kmVars, isVars, authVars, dbVars, btVars, connVars>>

NextChunk == ApplyChunk

SpecChunk == InitChunk /\ [][NextChunk]_vars

----------------------------------------------------------------------------
(* Specification SpecRank: STEP 5 and STEP 6 on drawn candidate lists *)

MaxCandidates == 3
RankTimes == {100, 110, 130, 200}
RankImportances == {1, 3, 5}
MomentCounts == {0, 1, 2, 3, 5}

RankCandidate(t, imp) ==
    [timestamp |-> t, speaker |-> <<"A">>, text |-> <<>>, importance |-> imp,
     type |-> "content", description |-> "Notable discussion"]

\* the candidate lists of the two worked examples of the ranking
DedupExample ==
    <<RankCandidate(100, 5), RankCandidate(110, 3), RankCandidate(200, 1)>>
TruncationExample ==
    <<RankCandidate(10, 1), RankCandidate(50, 9), RankCandidate(90, 1),
      RankCandidate(500, 1), RankCandidate(900, 1)>>

RankInputs ==
    {TruncationExample} \cup
    UNION {[1..n -> {RankCandidate(t, imp) : t \in RankTimes, imp \in RankImportances}]
             : n \in 0..MaxCandidates}

InitRank ==
    /\ ChunkIdle
    /\ DbIdle
    /\ AuthIdle
    /\ ISIdle
    /\ BtIdle
    /\ ConnIdle
    /\ KMEmpty
    /\ transcriptsIn = <<>>
    /\ maxMoments \in MomentCounts
    /\ argTopics = <<>>
    /\ autoDetectTopics = FALSE
    /\ granularity = "medium"
    /\ allSegments \in RankInputs
    /\ kmPc = "step5"

NextRank == KM_Step5 \/ KM_Step6

SpecRank == InitRank /\ [][NextRank /\ UNCHANGED <<chunkVars, isVars, authVars, dbVars, btVars, connVars>>]_vars

----------------------------------------------------------------------------
(* Specification SpecKM: findKeyMoments on drawn transcripts *)

MaxKMSegs == 3
KMTimes == {0, 20, 600}
KMSpeakers == {<<"A">>, <<"B">>, <<"C">>}
\* word lists: one scoring 0, one matching the importance and problem patterns
KMWords == {<<<<"o", "k">>>>, <<<<"k", "e", "y">>, <<"i", "s", "s", "u", "e">>>>}
KMMomentCounts == {1, 2, 5}

\* the three-segment transcript of the end-to-end scenario
ScenarioTranscript ==
    << Seg(0, <<"A">>, <<<<"L", "e", "t", "'", "s">>, <<"s", "t", "a", "r", "t">>, <<"t", "h", "e">>, <<"m", "e", "e", "t", "i", "n", "g">>>>),
       Seg(20, <<"B">>, <<<<"I">>, <<"t", "h", "i", "n", "k">>, <<"t", "h", "e">>, <<"b", "u", "d", "g", "e", "t">>, <<"i", "s">>, <<"a">>, <<"k", "e", "y">>,
                       <<"i", "s", "s", "u", "e">>, <<"w", "e">>, <<"m", "u", "s", "t">>, <<"r", "e", "s", "o", "l", "v", "e">>>>),
       Seg(600, <<"A">>, <<<<"I", "n">>, <<"c", "o", "n", "c", "l", "u", "s", "i", "o", "n", ",">>, <<"t", "h", "a", "n", "k", "s">>, <<"e", "v", "e", "r", "y", "o", "n", "e">>>>) >>

\* the same segments as the backend may return them, out of order
ScenarioUnsorted ==
    <<ScenarioTranscript[3], ScenarioTranscript[1], ScenarioTranscript[2]>>

KMSortedTimes(n) ==
    {s \in [1..n -> KMTimes] : \A i \in 1..(n - 1) : s[i] <= s[i + 1]}

KMTranscripts ==
    {ScenarioTranscript, ScenarioUnsorted} \cup
    UNION { { [i \in 1..n |-> Seg(ts[i], sp[i], ws[i])] :
                ts \in KMSortedTimes(n), sp \in [1..n -> KMSpeakers],
                ws \in [1..n -> KMWords] } : n \in 0..MaxKMSegs }

InitKM ==
    /\ ChunkIdle
    /\ DbIdle
    /\ AuthIdle
    /\ ISIdle
    /\ BtIdle
    /\ ConnIdle
    /\ KMEmpty
    /\ transcriptsIn \in KMTranscripts
    /\ maxMoments \in KMMomentCounts
    /\ argTopics = <<>>
    /\ autoDetectTopics = FALSE
    /\ granularity = "medium"
    /\ allSegments = <<>>
    /\ kmPc = "auth"

NextKM ==
    KM_Auth \/ KM_Fetch \/ KM_Step1 \/ KM_Step2 \/ KM_Step4 \/ KM_Step5 \/ KM_Step6

SpecKM == InitKM /\ [][NextKM /\ UNCHANGED <<chunkVars, isVars, authVars, dbVars, btVars, connVars>>]_vars
----------------------------------------------------------------------------
(* Specification SpecTopics: findKeyMoments on meetings whose text names
   topics, with and without topics supplied by the caller *)

Words(s) == splitWhitespace(s)

BudgetTalk == Words(<<"r", "e", "g", "a", "r", "d", "i", "n", "g", " ", "b", "u", "d", "g", "e", "t", " ", "p", "l", "a", "n", "n", "i", "n", "g", ".", " ", "w", "e", " ", "l", "i", "k", "e", " ", "b", "u", "d", "g", "e", "t", " ", "p", "l", "a", "n", "n", "i", "n", "g">>)
PricingTalk == Words(<<"O", "u", "r", " ", "p", "r", "i", "c", "i", "n", "g", " ", "m", "o", "d", "e", "l", " ", "i", "s", " ", "a", " ", "k", "e", "y", " ", "i", "s", "s", "u", "e", ".", " ", "R", "i", "s", "k", " ", "m", "a", "n", "a", "g", "e", "m", "e", "n", "t">>)
SmallTalk == Words(<<"t", "h", "a", "n", "k", "s", " ", "e", "v", "e", "r", "y", "o", "n", "e">>)

\* one chunk; two chunks naming the same topic; two chunks naming different
\* topics; a meeting that names none
TopicTranscripts ==
    { <<Seg(0, <<"A">>, BudgetTalk), Seg(30, <<"B">>, PricingTalk)>>,
      <<Seg(0, <<"A">>, BudgetTalk), Seg(400, <<"B">>, BudgetTalk)>>,
      <<Seg(0, <<"A">>, PricingTalk), Seg(400, <<"B">>, BudgetTalk), Seg(800, <<"A">>, SmallTalk)>>,
      <<Seg(0, <<"A">>, SmallTalk)>> }

TopicArgs ==
    { <<>>,
      <<<<"b", "u", "d", "g", "e", "t", " ", "p", "l", "a", "n", "n", "i", "n", "g">>, <<"p", "r", "i", "c", "i", "n", "g">>>>,
      <<<<"p", "r", "i", "c", "i", "n", "g">>, <<"p", "r", "i", "c", "i", "n", "g">>, <<" ", "p", "r", "i", "c", "i", "n", "g">>>>,
      <<<<"t", "1">>, <<"t", "2">>, <<"t", "3">>, <<"t", "4">>, <<"t", "5">>, <<"b", "u", "d", "g", "e", "t", " ", "p", "l", "a", "n", "n", "i", "n", "g">>>> }

Granularities == {"high", "medium", "low"}

InitTopics ==
    /\ ChunkIdle
    /\ DbIdle
    /\ AuthIdle
    /\ ISIdle
    /\ BtIdle
    /\ ConnIdle
    /\ KMEmpty
    /\ transcriptsIn \in TopicTranscripts
    /\ maxMoments \in {1, 5}
    /\ argTopics \in TopicArgs
    /\ autoDetectTopics \in BOOLEAN
    /\ granularity \in Granularities
    /\ allSegments = <<>>
    /\ kmPc = "auth"

SpecTopics == InitTopics /\ [][NextKM /\ UNCHANGED <<chunkVars, isVars, authVars, dbVars, btVars, connVars>>]_vars
----------------------------------------------------------------------------
(* Specifications SpecIS (one invocation) and SpecISPair (the same invocation
   in two contexts) *)

\* a meeting with speakers "Alice Smith", "Al" and "Bob"
MeetingA ==
    << TSeg(10, NoTime, <<"A", "l", "i", "c", "e", " ", "S", "m", "i", "t", "h">>,
            <<<<"w", "e">>, <<"d", "i", "s", "c", "u", "s", "s", "e", "d">>, <<"t", "h", "e">>, <<"b", "u", "d", "g", "e", "t">>, <<"t", "o", "d", "a", "y">>>>),
       TSeg(70, 80, <<"A", "l">>, <<<<"p", "r", "i", "c", "i", "n", "g">>, <<"l", "o", "o", "k", "s">>, <<"f", "i", "n", "e">>>>),
       TSeg(130, NoTime, <<"B", "o", "b">>, <<<<"b", "u", "d", "g", "e", "t">>, <<"r", "e", "v", "i", "e", "w">>, <<"i", "s">>, <<"p", "e", "n", "d", "i", "n", "g">>>>),
       TSeg(400, NoTime, <<"A", "l", "i", "c", "e", " ", "S", "m", "i", "t", "h">>, <<<<"t", "h", "a", "n", "k", "s">>, <<"e", "v", "e", "r", "y", "o", "n", "e">>>>) >>

\* a meeting with one speaker
MeetingB ==
    << TSeg(0, NoTime, <<"B", "o", "b">>, <<<<"h", "e", "l", "l", "o">>>>),
       TSeg(300, 310, <<"B", "o", "b">>, <<<<"p", "r", "i", "c", "i", "n", "g">>, <<"r", "e", "v", "i", "e", "w">>>>) >>

ISTranscripts == {MeetingA, MeetingB, <<>>}

ISQueries ==
    { <<"w", "h", "a", "t", " ", "d", "i", "d", " ", "A", "l", " ", "s", "a", "y", " ", "a", "b", "o", "u", "t", " ", "b", "u", "d", "g", "e", "t">>,
      <<"w", "h", "a", "t", " ", "d", "i", "d", " ", "B", "o", "b", " ", "s", "a", "y", " ", "a", "b", "o", "u", "t", " ", "z", "e", "b", "r", "a">>,
      <<"z", "e", "b", "r", "a">>,
      <<"b", "u", "d", "g", "e", "t", " ", "a", "f", "t", "e", "r", " ", "5">>,
      <<"p", "r", "i", "c", "i", "n", "g", " ", "r", "e", "v", "i", "e", "w">>,
      <<"p", "r", "i", "c", "i", "n", "g", " ", "z", "e", "b", "r", "a", " ", "z", "e", "b", "r", "a", " ", "z", "e", "b", "r", "a">>,
      <<"a", "r", "o", "u", "n", "d", " ", "1", ":", "1", "0">>,
      <<>> }

ISFilterChoices ==
    { Filters(<<>>, NoTime, NoTime),
      Filters(<<"a", "l", "i", "c", "e", " ", "s", "m", "i", "t", "h">>, NoTime, NoTime),
      Filters(<<>>, 60, 500),
      Filters(<<"A", "l">>, 100, NoTime) }

\* context.session and the key sources of a run, and whether the tracking
\* store throws when written
Ctx(sessionDefined, sessionKey, envKey, storeThrows) ==
    [sessionDefined |-> sessionDefined, sessionKey |-> sessionKey, envKey |-> envKey,
     configKey |-> NoKey, storeThrows |-> storeThrows]

\* the tracking write succeeds, throws, or is skipped for want of a session
TrackingOk == Ctx(TRUE, "k1", NoKey, FALSE)
TrackingThrows == Ctx(TRUE, "k1", NoKey, TRUE)
TrackingSkipped == Ctx(FALSE, NoKey, "k2", FALSE)

ISCtxCases ==
    {TrackingOk, TrackingThrows, TrackingSkipped,
     Ctx(FALSE, NoKey, NoKey, FALSE), Ctx(TRUE, NoKey, "k2", TRUE)}

\* two contexts that differ in the behaviour of the tracking write
TrackingPairs ==
    { <<TrackingOk, TrackingThrows>>, <<TrackingOk, TrackingSkipped>>,
      <<TrackingThrows, TrackingSkipped>> }

\* the tracking state an invocation finds
StoreCases ==
    { [ids |-> <<>>, records |-> <<>>],
      [ids |-> <<"b2", BotId>>,
       records |-> <<[id |-> "b2", accessCount |-> 2], [id |-> BotId, accessCount |-> 1]>>] }

SearchTools == {"intelligentSearch", "searchTranscript", "searchVideoSegment"}

ISInit(ctxs, pcs) ==
    /\ ChunkIdle
    /\ DbIdle
    /\ AuthIdle
    /\ KMIdle
    /\ BtIdle
    /\ ConnIdle
    /\ isTool \in SearchTools
    /\ isQuery \in ISQueries
    /\ isFilters \in ISFilterChoices
    /\ isTranscripts \in ISTranscripts
    /\ isCtx \in ctxs
    /\ isPc = pcs
    /\ isShare = "none"
    /\ isParsed = [r \in Runs |-> NoParse]
    /\ isResult = [r \in Runs |-> NoResult]
    /\ apiTrace = <<>>
    /\ apiCalls = [r \in Runs |-> 0]
    /\ \E st \in StoreCases :
          /\ recentBots = [r \in Runs |-> st.records]
          /\ recentBotIds = [r \in Runs |-> st.ids]

InitIS ==
    ISInit({[r \in Runs |-> c] : c \in ISCtxCases}, [r \in Runs |-> IF r = 1 THEN "start" ELSE "off"])

InitISPair == ISInit(TrackingPairs, [r \in Runs |-> "start"])

NextIS ==
    \E r \in Runs :
        \/ ST_Execute(r)
        \/ VS_Execute(r)
        \/ IS_Start(r)
        \/ IS_Fetch(r)
        \/ IS_Tier1(r)
        \/ IS_Tier2(r)
        \/ IS_Tier3(r)
        \/ IS_Tier4(r)
        \/ IS_Tier5(r)

SpecIS == InitIS /\ [][NextIS /\ UNCHANGED <<chunkVars, kmVars, authVars, dbVars, btVars, connVars>>]_vars

SpecISPair == InitISPair /\ [][NextIS /\ UNCHANGED <<chunkVars, kmVars, authVars, dbVars, btVars, connVars>>]_vars
----------------------------------------------------------------------------
(* Specification SpecAuth: getApiKeyWithFallbacks on every combination of
   session, environment variable and config file *)

InitAuth ==
    /\ ChunkIdle
    /\ DbIdle
    /\ KMIdle
    /\ ISIdle
    /\ BtIdle
    /\ ConnIdle
    /\ authIn \in [session : SessionStates, env : EnvStates, config : ConfigStates]
    /\ authPc = "call"
    /\ authOut = NoKey

NextAuth == Auth_Call

SpecAuth == InitAuth /\ [][NextAuth /\ UNCHANGED <<chunkVars, kmVars, isVars, dbVars, btVars, connVars>>]_vars
----------------------------------------------------------------------------
(* Specification SpecScore: findKeyMoments on segments whose texts exercise
   the scoring categories and the length bonus *)

MaxScoreSegs == 2

Filler(n) == [i \in 1..n |-> <<"a">>]

\* texts matching no category, one category, several categories, and texts
\* of 20 and 60 words
ScoreTexts ==
    { <<<<"o", "k">>>>,
      <<<<"k", "e", "y">>, <<"m", "a", "i", "n">>, <<"p", "o", "i", "n", "t">>>>,
      <<<<"i", "n">>, <<"c", "o", "n", "c", "l", "u", "s", "i", "o", "n">>, <<"w", "e">>, <<"d", "e", "c", "i", "d", "e", "d">>>>,
      <<<<"w", "e">>, <<"p", "l", "a", "n">>, <<"t", "o">>, <<"s", "h", "i", "p">>>>,
      <<<<"c", "i", "r", "c", "l", "e">>, <<"b", "a", "c", "k">>, <<"n", "e", "x", "t">>, <<"t", "i", "m", "e">>>>,
      <<<<"t", "h", "e">>, <<"p", "r", "o", "b", "l", "e", "m">>, <<"n", "e", "e", "d", "s">>, <<"a">>, <<"s", "o", "l", "u", "t", "i", "o", "n">>>>,
      <<<<"f", "o", "l", "l", "o", "w">>, <<"u", "p">>, <<"o", "n">>, <<"t", "h", "e">>, <<"d", "e", "c", "i", "s", "i", "o", "n">>>>,
      <<<<"I", "m", "p", "o", "r", "t", "a", "n", "t">>, <<"w", "e">>, <<"m", "u", "s", "t">>>>,
      Filler(20),
      <<<<"i", "m", "p", "o", "r", "t", "a", "n", "t">>, <<"m", "u", "s", "t">>>> \o Filler(58) }

\* segment i starts 200 seconds after segment i - 1, all by one speaker
ScoreTranscripts ==
    UNION { { [i \in 1..n |-> Seg(200 * (i - 1), <<"A">>, ws[i])] : ws \in [1..n -> ScoreTexts] }
              : n \in 1..MaxScoreSegs }

InitScore ==
    /\ ChunkIdle
    /\ DbIdle
    /\ AuthIdle
    /\ ISIdle
    /\ BtIdle
    /\ ConnIdle
    /\ KMEmpty
    /\ transcriptsIn \in ScoreTranscripts
    /\ maxMoments = 5
    /\ argTopics = <<>>
    /\ autoDetectTopics = FALSE
    /\ granularity = "medium"
    /\ allSegments = <<>>
    /\ kmPc = "auth"

SpecScore == InitScore /\ [][NextKM /\ UNCHANGED <<chunkVars, isVars, authVars, dbVars, btVars, connVars>>]_vars
----------------------------------------------------------------------------
(* Specification SpecConv: findKeyMoments on meetings of short segments by
   changing speakers *)

MaxConvSegs == 4
ConvSpeakers == {<<>>, <<"A">>, <<"B">>}
ConvGaps == {10, 50}

RECURSIVE StartTimes(_, _)
StartTimes(gaps, n) == IF n = 1 THEN 0 ELSE StartTimes(gaps, n - 1) + gaps[n - 1]

ConvSeg(t, spk) == Seg(t, spk, <<<<"o", "k">>>>)

\* six and seven segments ten seconds apart: three speakers, then two
SixTurns ==
    [i \in 1..6 |-> ConvSeg(10 * (i - 1), <<<<"A">>, <<"B">>, <<"C">>, <<"A">>, <<"B">>, <<"B">>>>[i])]
SevenTurns ==
    [i \in 1..7 |-> ConvSeg(10 * (i - 1),
                            <<<<"A">>, <<"A">>, <<"A">>, <<"B">>, <<"A">>, <<>>, <<"B">>>>[i])]

ConvTranscripts ==
    {SixTurns, SevenTurns} \cup
    UNION { { [i \in 1..n |-> ConvSeg(StartTimes(gaps, i), sp[i])] :
                sp \in [1..n -> ConvSpeakers], gaps \in [1..(n - 1) -> ConvGaps] }
              : n \in 1..MaxConvSegs }

InitConv ==
    /\ ChunkIdle
    /\ DbIdle
    /\ AuthIdle
    /\ ISIdle
    /\ BtIdle
    /\ ConnIdle
    /\ KMEmpty
    /\ transcriptsIn \in ConvTranscripts
    /\ maxMoments = 5
    /\ argTopics = <<>>
    /\ autoDetectTopics = FALSE
    /\ granularity = "medium"
    /\ allSegments = <<>>
    /\ kmPc = "auth"

SpecConv == InitConv /\ [][NextKM /\ UNCHANGED <<chunkVars, isVars, authVars, dbVars, btVars, connVars>>]_vars
----------------------------------------------------------------------------
(* Specification SpecTime: the search tools on queries that name times *)

\* a time as the query writes it and the seconds it stands for
Clock(text, secs) == [text |-> text, secs |-> secs]
Clocks ==
    { Clock(<<"0">>, 0), Clock(<<"5">>, 300), Clock(<<"1", ":", "1", "0">>, 70), Clock(<<"0", ":", "3", "0">>, 30),
      Clock(<<"1", "2", ":", "0", "5">>, 725) }

\* a query and the time range it asks for; setsStart (setsEnd) is FALSE when
\* the query leaves the start (the end) as the filters gave it
TimeQuery(text, setsStart, start, setsEnd, end) ==
    [text |-> text, setsStart |-> setsStart, start |-> start, setsEnd |-> setsEnd,
     end |-> end]

AroundStart(secs) == IF secs >= 60 THEN secs - 60 ELSE 0

TimeQueries ==
    { TimeQuery(<<"b", "u", "d", "g", "e", "t">>, FALSE, 0, FALSE, 0) }
    \cup { TimeQuery(<<"b", "u", "d", "g", "e", "t", " ", "a", "f", "t", "e", "r", " ">> \o c.text, TRUE, c.secs, FALSE, 0) : c \in Clocks }
    \cup { TimeQuery(<<"b", "u", "d", "g", "e", "t", " ", "b", "e", "f", "o", "r", "e", " ">> \o c.text, FALSE, 0, TRUE, c.secs) : c \in Clocks }
    \cup { TimeQuery(<<"b", "u", "d", "g", "e", "t", " ", "a", "r", "o", "u", "n", "d", " ">> \o c.text, TRUE, AroundStart(c.secs), TRUE, c.secs + 60)
             : c \in Clocks }
    \cup { TimeQuery(<<"b", "e", "t", "w", "e", "e", "n", " ">> \o p[1].text \o p[2] \o p[3].text \o <<" ", "p", "r", "i", "c", "i", "n", "g">>,
                     TRUE, p[1].secs, TRUE, p[3].secs)
             : p \in { <<Clock(<<"5">>, 300), <<" ", "a", "n", "d", " ">>, Clock(<<"1", "2", ":", "0", "5">>, 725)>>,
                       <<Clock(<<"1", ":", "1", "0">>, 70), <<" ", "t", "o", " ">>, Clock(<<"5">>, 300)>>,
                       <<Clock(<<"1", "2", ":", "0", "5">>, 725), <<" ", " ", "A", "N", "D", " ", " ">>, Clock(<<"0">>, 0)>> } }
    \cup { TimeQuery(<<"b", "u", "d", "g", "e", "t", " ", "A", "F", "T", "E", "R", " ", " ", "5">>, TRUE, 300, FALSE, 0),
           \* several patterns match: the first in the order between, after,
           \* before, around is the one applied
           TimeQuery(<<"b", "e", "f", "o", "r", "e", " ", "5", " ", "a", "f", "t", "e", "r", " ", "1", ":", "1", "0">>, TRUE, 70, FALSE, 0),
           TimeQuery(<<"a", "r", "o", "u", "n", "d", " ", "5", " ", "b", "e", "t", "w", "e", "e", "n", " ", "0", " ", "a", "n", "d", " ", "1", ":", "1", "0">>, TRUE, 0, TRUE, 70),
           TimeQuery(<<"a", "r", "o", "u", "n", "d", " ", "1", ":", "1", "0", " ", "b", "e", "f", "o", "r", "e", " ", "5">>, FALSE, 0, TRUE, 300) }

TimeFilterChoices == {Filters(<<>>, NoTime, NoTime), Filters(<<>>, 60, 500)}

InitTime ==
    /\ ChunkIdle
    /\ DbIdle
    /\ AuthIdle
    /\ KMIdle
    /\ BtIdle
    /\ ConnIdle
    /\ isTool \in SearchTools
    /\ isQuery \in {q.text : q \in TimeQueries}
    /\ isFilters \in TimeFilterChoices
    /\ isTranscripts = MeetingA
    /\ isCtx = [r \in Runs |-> TrackingOk]
    /\ isPc = [r \in Runs |-> IF r = 1 THEN "start" ELSE "off"]
    /\ isParsed = [r \in Runs |-> NoParse]
    /\ isResult = [r \in Runs |-> NoResult]
    /\ apiTrace = <<>>
    /\ apiCalls = [r \in Runs |-> 0]
    /\ recentBots = [r \in Runs |-> <<>>]
    /\ recentBotIds = [r \in Runs |-> <<>>]
    /\ isShare = "none"

SpecTime == InitTime /\ [][NextIS /\ UNCHANGED <<chunkVars, kmVars, authVars, dbVars, btVars, connVars>>]_vars
----------------------------------------------------------------------------
(* Specification SpecDb: sequences of trackBot calls on one TinyDb instance,
   bot ids being numbers *)

MaxDbCalls == 3

\* a store as n calls with the ids 1..n leave it
Filled(n) == [i \in 1..n |-> [id |-> n + 1 - i, accessCount |-> 1]]

\* the ids of the calls: the oldest and a middle bot of a full store, and
\* two bots it does not hold
DbIds == {1, 25, 51, 52}

InitDb ==
    /\ ChunkIdle
    /\ KMIdle
    /\ ISIdle
    /\ AuthIdle
    /\ BtIdle
    /\ ConnIdle
    /\ \E n \in {0, TinyDbMax} :
          /\ dbRecords = Filled(n)
          /\ dbCalls = [i \in 1..n |-> i]

\* the calls made since the initial state
CallsMade == IF Len(dbCalls) >= TinyDbMax THEN Len(dbCalls) - TinyDbMax ELSE Len(dbCalls)

NextDb ==
    /\ CallsMade < MaxDbCalls
    /\ \E id \in DbIds : Db_TrackBot(id)

SpecDb == InitDb /\ [][NextDb /\ UNCHANGED <<chunkVars, kmVars, isVars, authVars, btVars, connVars>>]_vars
----------------------------------------------------------------------------
(* Specification SpecConc: two concurrent invocations of a search tool in one
   server process, with the same arguments and the same API responses; the
   runs move in any order, one step per resumption after an await *)

ConcQueries ==
    { <<"w", "h", "a", "t", " ", "d", "i", "d", " ", "A", "l", " ", "s", "a", "y", " ", "a", "b", "o", "u", "t", " ", "b", "u", "d", "g", "e", "t">>, <<"p", "r", "i", "c", "i", "n", "g", " ", "r", "e", "v", "i", "e", "w">>, <<"z", "e", "b", "r", "a">> }

\* the stores the invocations find: empty, holding the bot, and full without
\* the bot (50 records, 5 recent ids)
FullStore == [i \in 1..TinyDbMax |-> [id |-> ToString(i), accessCount |-> 1]]
ConcStoreCases ==
    { [ids |-> <<>>, records |-> <<>>],
      [ids |-> <<"b2", BotId>>,
       records |-> <<[id |-> "b2", accessCount |-> 2], [id |-> BotId, accessCount |-> 1]>>],
      [ids |-> <<"1", "2", "3", "4", "5">>, records |-> FullStore] }

\* the contexts of the two runs: on one connection they have one session; on
\* two connections one may have a session and the other none
ConcCtxs(share) ==
    { [r \in Runs |-> c] : c \in {TrackingOk, TrackingThrows, TrackingSkipped} }
    \cup (IF share = "store"
          THEN { <<TrackingOk, TrackingSkipped>>,
                 <<TrackingThrows, Ctx(FALSE, NoKey, "k2", TRUE)>> }
          ELSE {})

InitConc ==
    /\ ChunkIdle
    /\ DbIdle
    /\ AuthIdle
    /\ KMIdle
    /\ BtIdle
    /\ ConnIdle
    /\ isTool \in SearchTools
    /\ isQuery \in ConcQueries
    /\ isFilters = Filters(<<>>, NoTime, NoTime)
    /\ isTranscripts = MeetingA
    /\ isShare \in {"store", "session"}
    /\ isCtx \in ConcCtxs(isShare)
    /\ isPc = [r \in Runs |-> "start"]
    /\ isParsed = [r \in Runs |-> NoParse]
    /\ isResult = [r \in Runs |-> NoResult]
    /\ apiTrace = <<>>
    /\ apiCalls = [r \in Runs |-> 0]
    /\ \E st \in ConcStoreCases :
          /\ recentBots = [r \in Runs |-> st.records]
          /\ recentBotIds = [r \in Runs |-> st.ids]

SpecConc == InitConc /\ [][NextIS /\ UNCHANGED <<chunkVars, kmVars, authVars, dbVars, btVars, connVars>>]_vars
----------------------------------------------------------------------------
(* Specification SpecBT: one searchTranscriptByType invocation *)

\* the bots of the account: two sales meetings (one typed "Sales"), a
\* standup and a bot without a type
AccountBots ==
    << ListedBot("u1", <<"s", "a", "l", "e", "s">>, MeetingA),
       ListedBot("u2", <<"S", "a", "l", "e", "s">>, MeetingB),
       ListedBot("u3", <<"s", "t", "a", "n", "d", "u", "p">>, MeetingA),
       ListedBot("u4", NoType, MeetingB) >>

BTBotLists == {<<>>, AccountBots, SubSeq(AccountBots, 2, 4), SubSeq(AccountBots, 3, 4)}
BTQueries == {<<"p", "r", "i", "c", "i", "n", "g">>, <<"b", "u", "d", "g", "e", "t">>, <<"z", "e", "b", "r", "a">>}
BTLimits == {1, 2}

\* a key in the session, in the environment only (with a session object
\* that has no key, and with no session), in the config file only, nowhere
BTCtxCases ==
    { TrackingOk, TrackingThrows, TrackingSkipped, Ctx(TRUE, NoKey, "k2", FALSE),
      [Ctx(FALSE, NoKey, NoKey, FALSE) EXCEPT !.configKey = "k3"],
      Ctx(FALSE, NoKey, NoKey, FALSE) }

InitBT ==
    /\ ChunkIdle
    /\ KMIdle
    /\ ISIdle
    /\ AuthIdle
    /\ ConnIdle
    /\ DbIdle
    /\ btIn \in [ctx : BTCtxCases, bots : BTBotLists, meetingType : {<<"s", "a", "l", "e", "s">>},
                 query : BTQueries, limit : BTLimits]
    /\ btPc = "start"
    /\ btLeft = <<>>
    /\ btResults = <<>>
    /\ btRequests = <<>>
    /\ btRecentIds = <<>>
    /\ btResult = BTResult("none", <<>>)

NextBT == BT_Start \/ BT_List \/ BT_Bot \/ BT_Return

SpecBT == InitBT /\ [][NextBT /\ UNCHANGED <<chunkVars, kmVars, isVars, authVars, connVars>>]_vars
----------------------------------------------------------------------------
(* Specification SpecConn: one connection, on every combination of headers
   and environment variable *)

HeaderValues ==
    { NoHeader, Header("string", <<"">>), Header("string", <<"k1">>),
      Header("string", <<"k3">>), Header("array", <<"k4", "k5">>) }

ConnEnvValues == {NoKey, "k2", "k6"}

InitConn ==
    /\ ChunkIdle
    /\ KMIdle
    /\ ISIdle
    /\ AuthIdle
    /\ DbIdle
    /\ BtIdle
    /\ connIn \in [requestHeader : HeaderValues, contextHeader : HeaderValues,
                   env : ConnEnvValues]
    /\ connPc = "connect"
    /\ connOut = ConnOut(0, NoKey)

NextConn == Conn_Authenticate

SpecConn == InitConn /\ [][NextConn /\ UNCHANGED <<chunkVars, kmVars, isVars, authVars, dbVars, btVars>>]_vars
----------------------------------------------------------------------------
\* C1: for sorted input the chunks returned are non-empty and their
\* concatenation, in order, is exactly the input (no segment dropped,
\* duplicated or reordered); empty input gives the empty list.
C1_ChunksPartitionInput ==
    cPc = "returned" =>
        /\ \A k \in 1..Len(cOut) : Len(cOut[k]) > 0
        /\ Flatten(cOut) = cIn
        /\ (cIn = <<>> => cOut = <<>>)

C1_Witness ==
    /\ cPc = "returned"
    /\ Len(cOut) >= 2
    /\ \E k \in 1..Len(cOut) : Len(cOut[k]) >= 2

\* C2: every segment of a chunk starts at most maxChunkDuration after the
\* chunk's first segment, and each later chunk's first segment starts
\* strictly more than maxChunkDuration after the previous chunk's first.
C2_GreedyOnReferenceTime ==
    cPc = "returned" =>
        /\ \A k \in 1..Len(cOut) : \A j \in 1..Len(cOut[k]) :
              cOut[k][j].start_time - cOut[k][1].start_time <= cMax
        /\ \A k \in 2..Len(cOut) :
              cOut[k][1].start_time - cOut[k - 1][1].start_time > cMax

C2_Witness ==
    /\ cPc = "returned"
    /\ Len(cOut) >= 2
    /\ \E k \in 1..Len(cOut) :
          /\ Len(cOut[k]) >= 2
          /\ cOut[k][Len(cOut[k])].start_time - cOut[k][1].start_time = cMax
          /\ cMax > 0

----------------------------------------------------------------------------
(* Claims about the ranking, checked under SpecRank *)

Timestamps(s) == [i \in 1..Len(s) |-> s[i].timestamp]

\* position of input element i after a stable sort by descending importance
RankPosition(in, i) ==
    Cardinality({j \in 1..Len(in) : in[j].importance > in[i].importance})
    + Cardinality({j \in 1..i : in[j].importance = in[i].importance})

\* the indices of `ranked` a walk in order accepts: i is accepted iff no
\* earlier accepted index is less than 30 seconds away
IsAcceptedSet(ranked, K) ==
    \A i \in 1..Len(ranked) :
        i \in K <=> ~ \E j \in K : j < i
                         /\ Abs(ranked[i].timestamp - ranked[j].timestamp) < 30

\* C3: the deduplication walks the candidates in descending-importance order
\* (stable for ties) and keeps a candidate unless it is within 30 seconds of
\* one accepted earlier; the example [100(5),110(3),200(1)] gives [100,200];
\* any two moments of an output are at least 30 seconds apart.
C3_DedupGreedyWalk ==
    kmPc \in {"step6", "done"} =>
        /\ Len(rankedSegments) = Len(allSegments)
        /\ \A i \in 1..Len(allSegments) :
              rankedSegments[RankPosition(allSegments, i)] = allSegments[i]
        /\ \E K \in SUBSET (1..Len(rankedSegments)) :
              /\ IsAcceptedSet(rankedSegments, K)
              /\ Len(dedupedSegments) = Cardinality(K)
              /\ \A i \in K :
                    dedupedSegments[Cardinality({j \in K : j <= i})] = rankedSegments[i]
        /\ \A a, b \in 1..Len(dedupedSegments) :
              a # b => Abs(dedupedSegments[a].timestamp
                           - dedupedSegments[b].timestamp) >= 30
        /\ kmPc = "done" =>
              /\ \A a, b \in 1..Len(kmResult.moments) :
                    a # b => Abs(kmResult.moments[a].timestamp
                                 - kmResult.moments[b].timestamp) >= 30
              /\ (allSegments = DedupExample /\ maxMoments >= 2)
                    => Timestamps(kmResult.moments) = <<100, 200>>

C3_Witness ==
    /\ kmPc = "done"
    /\ allSegments = DedupExample
    /\ maxMoments >= 2
    /\ Len(dedupedSegments) = 2
    /\ Len(kmResult.moments) = 2

\* C4: the moments returned are the first maxMoments entries of the
\* deduplicated candidates in ascending timestamp order: chronological, at
\* most maxMoments of them, and the earliest survivors, not the most
\* important ones ([10,50,90,500,900] with maxMoments = 3 gives [10,50,90]).
C4_EarliestMomentsKept ==
    kmPc = "done" =>
        /\ Len(finalSegments) = Min2(maxMoments, Len(dedupedSegments))
        /\ \A i \in 1..(Len(finalSegments) - 1) :
              finalSegments[i].timestamp <= finalSegments[i + 1].timestamp
        /\ \A i \in 1..Len(finalSegments) : finalSegments[i] \in Range(dedupedSegments)
        /\ \A d \in Range(dedupedSegments) :
              d \notin Range(finalSegments)
                => \A i \in 1..Len(finalSegments) : finalSegments[i].timestamp <= d.timestamp
        /\ Timestamps(kmResult.moments) = Timestamps(finalSegments)
        /\ (allSegments = TruncationExample /\ maxMoments = 3)
              => Timestamps(kmResult.moments) = <<10, 50, 90>>

\* truncation dropped a survivor more important than one it kept
C4_Witness ==
    /\ kmPc = "done"
    /\ Len(finalSegments) = maxMoments
    /\ \E d \in Range(dedupedSegments) :
          /\ d \notin Range(finalSegments)
          /\ \E i \in 1..Len(finalSegments) : d.importance > finalSegments[i].importance

----------------------------------------------------------------------------
(* Claims about findKeyMoments, checked under SpecKM *)

AllContentScoresZero ==
    \A i \in 1..Len(transcriptsIn) : ImportanceScore(SegmentText(transcriptsIn[i])) = 0

\* C5: for a non-empty transcript whose segments all have content score 0,
\* and maxMoments >= 1, the returned key moments contain the "Meeting start"
\* entry at the first segment's timestamp.
C5_MeetingStartIncluded ==
    (/\ kmPc = "done"
     /\ kmResult.kind \in {"moments", "noKeyMoments"}
     /\ Len(transcriptsIn) > 0
     /\ AllContentScoresZero
     /\ maxMoments >= 1)
    => \E i \in 1..Len(kmResult.moments) :
          /\ kmResult.moments[i].description = "Meeting start"
          /\ kmResult.moments[i].timestamp = sortedTranscripts[1].start_time

\* C6: for the three-segment scenario transcript and maxMoments = 2 the tool
\* returns exactly the meeting-start moment at t=0 and the budget segment at
\* t=20, and not the t=600 conclusion.
C6_ScenarioMoments ==
    (/\ kmPc = "done"
     /\ kmResult.kind \in {"moments", "noKeyMoments"}
     /\ transcriptsIn = ScenarioTranscript
     /\ maxMoments = 2)
    => /\ Timestamps(kmResult.moments) = <<0, 20>>
       /\ kmResult.moments[1].description = "Meeting start"

\* candidate c was dropped: the deduplicated list holds fewer copies of it
\* than the candidate list
Dropped(c) ==
    Cardinality({k \in 1..Len(dedupedSegments) : dedupedSegments[k] = c})
        < Cardinality({i \in 1..Len(allSegments) : allSegments[i] = c})

\* C20: every candidate the deduplication drops lies less than 30 seconds
\* from a kept candidate whose importance is at least its own.
C20_DroppedNearMoreImportant ==
    kmPc \in {"step6", "done"} =>
        \A i \in 1..Len(allSegments) :
            Dropped(allSegments[i]) =>
                \E k \in 1..Len(dedupedSegments) :
                    /\ Abs(allSegments[i].timestamp - dedupedSegments[k].timestamp) < 30
                    /\ dedupedSegments[k].importance >= allSegments[i].importance

\* a candidate was dropped in favour of a strictly more important one that
\* came after it in the candidate list
C20_Witness ==
    /\ kmPc \in {"step6", "done"}
    /\ \E i, j \in 1..Len(allSegments) :
          /\ i < j
          /\ Dropped(allSegments[i])
          /\ ~Dropped(allSegments[j])
          /\ allSegments[j].importance > allSegments[i].importance
          /\ Abs(allSegments[i].timestamp - allSegments[j].timestamp) < 30
----------------------------------------------------------------------------
(* Claims about intelligentSearch *)

\* the invocation of run r is an intelligentSearch that has returned, past
\* authentication, with every apiRequest answered
Answered(r) ==
    /\ isTool = "intelligentSearch"
    /\ isPc[r] = "done"
    /\ isResult[r].form # "authFailed"
    /\ \A k \in 1..apiCalls[r] : apiTrace[k] = "ok"

\* the speaker-filtered segment set: what the segment search yields for the
\* effective speaker and time range
SpeakerFiltered(r) ==
    videoSegmentFilter(isTranscripts, isParsed[r].startTime, isParsed[r].endTime,
                       isParsed[r].speaker)

HasTerms(r) == trim(isParsed[r].searchTerms) # <<>>

\* what each tier yields, as the code computes it
Tier1Yield(r) ==
    IF isParsed[r].speaker # <<>> /\ HasTerms(r) /\ SpeakerFiltered(r) # <<>>
    THEN tier1FilterByTerms(tier1SpeakerMatch(isTranscripts, isParsed[r].speaker),
                            isParsed[r].searchTerms)
    ELSE <<>>
Tier2Yield(r) == IF isParsed[r].speaker # <<>> THEN SpeakerFiltered(r) ELSE <<>>
Tier3Yield(r) ==
    IF HasTerms(r) /\ Len(tier3SearchWords(isParsed[r].searchTerms)) > 1
    THEN tier3MultiTerm(isTranscripts, tier3SearchWords(isParsed[r].searchTerms))
    ELSE <<>>
Tier4Yield(r) ==
    IF HasTerms(r) THEN transcriptHits(isTranscripts, isParsed[r].searchTerms) ELSE <<>>
TierYields(r) == <<Tier1Yield(r), Tier2Yield(r), Tier3Yield(r), Tier4Yield(r)>>

\* the query names a speaker, the residual terms match none of that
\* speaker's segments, and the speaker has segments
FallthroughCase(r) ==
    /\ Answered(r)
    /\ isFilters.speaker = <<>>
    /\ isParsed[r].speaker # <<>>
    /\ HasTerms(r)
    /\ SpeakerFiltered(r) # <<>>
    /\ tier1FilterByTerms(SpeakerFiltered(r), isParsed[r].searchTerms) = <<>>

\* C7: when the query names a speaker and the residual terms match none of
\* that speaker's segments while the speaker has segments, the search returns
\* the Tier 2 output, whose segments are exactly the speaker-filtered set.
C7_FallthroughToTier2 ==
    FallthroughCase(1) =>
        /\ isResult[1].tier = 2
        /\ isResult[1].segs = SpeakerFiltered(1)

\* the result is that of the first tier, in the order 1 to 4, that yields a
\* match
FirstTierWithMatchesWins(r) ==
    \A i \in 1..4 :
        (/\ TierYields(r)[i] # <<>>
         /\ \A j \in 1..(i - 1) : TierYields(r)[j] = <<>>)
        => /\ isResult[r].tier = i
           /\ isResult[r].segs = TierYields(r)[i]

\* when Tiers 1 to 4 yield nothing the answer is the Tier 5 listing
Tier5WhenNothingMatched(r) ==
    (\A i \in 1..4 : TierYields(r)[i] = <<>>)
    => /\ isResult[r].tier = 5
       /\ isResult[r].segs = SpeakerFiltered(r)

\* C8: the search returns the result of the first tier, in the order 1 to
\* 5, that yields a match; when Tiers 1 to 4 yield none, the answer is the
\* Tier 5 time/speaker-filtered listing, empty or not.
C8_FirstTierElseTier5 ==
    Answered(1) => FirstTierWithMatchesWins(1) /\ Tier5WhenNothingMatched(1)

\* the first half of C8 alone
C8_FirstHalf == Answered(1) => FirstTierWithMatchesWins(1)

\* run r has derived speaker, timeRange and searchTerms
Parsed(r) == isTool = "intelligentSearch" /\ isPc[r] \notin {"off", "start"}
             /\ isResult[r].form # "authFailed"

\* C9: a speaker, start time or end time given in the filters is the
\* effective one, whatever the query text says.
C9_FiltersWin ==
    Parsed(1) =>
        /\ isFilters.speaker # <<>> => isParsed[1].speaker = isFilters.speaker
        /\ isFilters.startTime # NoTime => isParsed[1].startTime = isFilters.startTime
        /\ isFilters.endTime # NoTime => isParsed[1].endTime = isFilters.endTime

\* the speaker half of C9 alone
C9_SpeakerFilterWins ==
    Parsed(1) => (isFilters.speaker # <<>> => isParsed[1].speaker = isFilters.speaker)

\* C10: two runs of a search tool on the same inputs and the same API
\* responses, differing only in whether the tracking write succeeds, throws
\* or is skipped, return the same result, and the result is an error only
\* if an apiRequest failed.
C10_ResultIndependentOfTracking ==
    (isPc[1] = "done" /\ isPc[2] = "done") =>
        /\ isResult[1] = isResult[2]
        /\ \A r \in Runs :
              isResult[r].form = "error" => \E k \in 1..apiCalls[r] : apiTrace[k] = "throws"

\* both runs returned segments; the write succeeded in one and threw in the
\* other, and the stores differ
C10_Witness ==
    /\ isPc[1] = "done"
    /\ isPc[2] = "done"
    /\ isCtx[1].sessionDefined /\ isCtx[2].sessionDefined
    /\ ~isCtx[1].storeThrows
    /\ isCtx[2].storeThrows
    /\ recentBots[1] # recentBots[2]
    /\ isResult[1].segs # <<>>
    /\ isResult[1] = isResult[2]
----------------------------------------------------------------------------
(* Claims about failures: API errors and missing credentials *)

\* C11: an apiRequest that fails during intelligentSearch, in execute itself
\* or in a nested tool call, ends the invocation at once with an error
\* result: the failed request is the last one made.
C11_ApiFailureAborts ==
    isTool = "intelligentSearch" =>
        \A k \in 1..apiCalls[1] :
            apiTrace[k] = "throws" =>
                /\ k = apiCalls[1]
                /\ isPc[1] = "done"
                /\ isResult[1].form = "error"

\* the same for the request execute itself makes (719-725, 917-920)
C11_MainRequestAborts ==
    (isTool = "intelligentSearch" /\ apiCalls[1] >= 1 /\ apiTrace[1] = "throws") =>
        /\ apiCalls[1] = 1
        /\ isPc[1] = "done"
        /\ isResult[1].form = "error"

\* the same for findKeyMoments, which makes one request (186-191, 290-293)
C11_KeyMomentsAborts ==
    kmResult.kind = "error" => /\ kmPc = "done"
                               /\ sortedTranscripts = <<>>
                               /\ finalSegments = <<>>

\* no source provides a key to the invocation of run r
NoCredential(r) ==
    /\ isCtx[r].sessionKey = NoKey
    /\ isCtx[r].envKey = NoKey
    /\ isCtx[r].configKey = NoKey

\* C12: when no credential can be resolved, every step a search tool takes
\* is the return of the authentication failure: no API request is made and
\* the recent-bots store and session.recentBotIds stay as they were.
C12_NoCredentialNoEffect ==
    [][NoCredential(1) =>
          /\ isPc'[1] = "done"
          /\ isResult'[1] = ISResult("authFailed", <<>>, 0)
          /\ UNCHANGED <<apiTrace, apiCalls, recentBots, recentBotIds>>]_vars

\* a tool has returned the authentication failure, without a request, over a
\* store that holds records
C12_Witness ==
    /\ NoCredential(1)
    /\ isPc[1] = "done"
    /\ isResult[1].form = "authFailed"
    /\ apiCalls[1] = 0
    /\ recentBots[1] # <<>>

\* the same for findKeyMoments: the authentication failure is returned from
\* the first step, before the request and any processing (169-184)
C12_KeyMomentsAuth ==
    [][kmResult'.kind = "authFailed" =>
          /\ kmPc = "auth"
          /\ kmPc' = "done"
          /\ sortedTranscripts' = <<>>]_vars
----------------------------------------------------------------------------
(* Claims about the topic list *)

\* the number of distinct strings of topics that occur before position i
DistinctBefore(topics, i) == Cardinality({topics[j] : j \in 1..(i - 1)})

IsFirstOccurrence(topics, i) == \A j \in 1..(i - 1) : topics[j] # topics[i]

\* findKeyMoments has returned key moments, and so a topic list
TopicsShown == kmPc = "done" /\ kmResult.kind = "moments"

----------------------------------------------------------------------------
(* Claims about credential resolution *)

SessionHasKey == authIn.session \in {"k1"}
EnvHasKey == authIn.env \in {"k2"}
ConfigHasKey == authIn.config \in {"k3"}

\* C15: the key is resolved in the priority session > environment variable >
\* config file: the session key whenever the session has one, the environment
\* key only when the session has none, the config-file key only when neither
\* has one, and null only when none of the three provides a key; a config
\* file that cannot be read or parsed provides none.
C15_CredentialPriority ==
    authPc = "done" =>
        /\ SessionHasKey => authOut = "k1"
        /\ authOut = "k2" <=> (EnvHasKey /\ ~SessionHasKey)
        /\ authOut = "k3" <=> (ConfigHasKey /\ ~SessionHasKey /\ ~EnvHasKey)
        /\ authOut = NoKey <=> (~SessionHasKey /\ ~EnvHasKey /\ ~ConfigHasKey)
        /\ (authIn.config \in {"unreadable", "malformed"} /\ ~SessionHasKey /\ ~EnvHasKey)
              => authOut = NoKey

\* all three sources hold a key and the call has returned
C15_Witness ==
    authPc = "done" /\ SessionHasKey /\ EnvHasKey /\ ConfigHasKey /\ authOut = "k1"

\* the config file cannot be parsed, nothing else holds a key, null is returned
C15_WitnessConfigError ==
    /\ authPc = "done" /\ authIn.config = "malformed"
    /\ ~SessionHasKey /\ ~EnvHasKey /\ authOut = NoKey
----------------------------------------------------------------------------
(* Claims about the form of search results *)

\* the least start time among the matches of a result
EarliestStart(segs) ==
    CHOOSE t \in {segs[i].start_time : i \in 1..Len(segs)} :
        \A i \in 1..Len(segs) : t <= segs[i].start_time

CarriesAll(result) ==
    /\ ResultParts(result.form) = {"count", "watchLink", "segmentText", "segmentLink"}
    /\ WatchLinkTime(result) = EarliestStart(result.segs)
    /\ SegmentLinkTimes(result) = [i \in 1..Len(result.segs) |-> result.segs[i].start_time]

\* C16: whichever tier of intelligentSearch returns at least one match, the
\* result carries the match count, a "watch from beginning" link at the
\* earliest match, and the text and a timestamped link of every match.
C16_EveryTierCarriesLinks ==
    (isTool = "intelligentSearch" /\ isPc[1] = "done" /\ Len(isResult[1].segs) > 0)
        => CarriesAll(isResult[1])

\* the same for the tiers other than Tier 4
C16_LinkedTiers ==
    (/\ isTool = "intelligentSearch" /\ isPc[1] = "done"
     /\ Len(isResult[1].segs) > 0 /\ isResult[1].tier # 4)
        => CarriesAll(isResult[1])
----------------------------------------------------------------------------
(* Claims about the scoring and the description of content candidates *)

Hit(text, literals) == IF TestAny(text, literals) THEN 1 ELSE 0

\* the score of a segment as the weights of the seven categories and the
\* length bonus give it, the words counted on the segment itself
CategoryScore(segment) ==
    LET text == SegmentText(segment) IN
      3 * Hit(text, ImportanceLiterals) + 4 * Hit(text, SummaryLiterals)
    + 2 * Hit(text, ObligationLiterals) + 3 * Hit(text, DecisionLiterals)
    + 2 * Hit(text, ProblemLiterals) + 2 * Hit(text, SolutionLiterals)
    + 3 * Hit(text, NextStepsLiterals)
    + (IF Len(segment.words) >= 40 THEN 2 ELSE IF Len(segment.words) >= 20 THEN 1 ELSE 0)

\* STEP 2 has run
Scored == kmPc \in {"step3", "step5", "step6", "done"} /\ sortedTranscripts # <<>>

ContentCandidates == SelectSeq(candidateSegments, LAMBDA c : c.type = "content")

ScoringSegments ==
    SelectSeq(sortedTranscripts, LAMBDA segment : CategoryScore(segment) > 0)

\* C17: the content candidates are the segments whose score (the weights
\* 3,4,2,3,2,2,3 of the matching categories, each once, plus
\* min(2, floor(wordCount/20))) is above 0, in order, each with that score as
\* its importance; a segment scoring 0 gives no candidate.
C17_ScoreIsWeightsPlusLength ==
    Scored =>
        /\ Len(ContentCandidates) = Len(ScoringSegments)
        /\ \A n \in 1..Len(ScoringSegments) :
              /\ ContentCandidates[n].timestamp = ScoringSegments[n].start_time
              /\ ContentCandidates[n].text = SegmentText(ScoringSegments[n])
              /\ ContentCandidates[n].importance = CategoryScore(ScoringSegments[n])

\* a segment of 60 words matching two categories is a candidate of importance
\* 3 + 2 + 2, next to a segment scoring 0 that is not
C17_Witness ==
    /\ Scored
    /\ \E i \in 1..Len(sortedTranscripts) : CategoryScore(sortedTranscripts[i]) = 0
    /\ \E n \in 1..Len(ContentCandidates) :
          /\ ContentCandidates[n].importance = 7
          /\ Len(splitWhitespace(ContentCandidates[n].text)) = 60

IsLanguageDescription(d) ==
    d \in {"Summary or conclusion", "Discussion about next steps", "Decision point",
           "Problem discussion", "Solution discussion"}

\* the description the priority rule gives when each language test is the
\* scoring category of the same name
DescriptionByCategory(text, importance) ==
    IF TestAny(text, SummaryLiterals) THEN "Summary or conclusion"
    ELSE IF TestAny(text, NextStepsLiterals) THEN "Discussion about next steps"
    ELSE IF TestAny(text, DecisionLiterals) THEN "Decision point"
    ELSE IF TestAny(text, ProblemLiterals) THEN "Problem discussion"
    ELSE IF TestAny(text, SolutionLiterals) THEN "Solution discussion"
    ELSE IF importance > 5 THEN "Highly important discussion"
    ELSE IF importance > 3 THEN "Important point"
    ELSE "Notable discussion"

\* C18: the description of a content candidate follows the priority summary >
\* next-steps > decision > problem > solution > score bands, each language
\* test being the scoring category of that name.
C18_DescriptionFollowsCategories ==
    Scored =>
        \A n \in 1..Len(ContentCandidates) :
            ContentCandidates[n].description =
                DescriptionByCategory(ContentCandidates[n].text,
                                      ContentCandidates[n].importance)

\* a segment is described as next steps only if it matched the next-steps
\* scoring category
C18_NextStepsOnlyIfScored ==
    Scored =>
        \A n \in 1..Len(ContentCandidates) :
            ContentCandidates[n].description = "Discussion about next steps"
                => TestAny(ContentCandidates[n].text, NextStepsLiterals)

\* a score-band description is used only if none of the five language
\* categories matched
C18_BandOnlyIfNoCategory ==
    Scored =>
        \A n \in 1..Len(ContentCandidates) :
            ~IsLanguageDescription(ContentCandidates[n].description)
                => \A lits \in {SummaryLiterals, NextStepsLiterals, DecisionLiterals,
                                ProblemLiterals, SolutionLiterals} :
                       ~TestAny(ContentCandidates[n].text, lits)
----------------------------------------------------------------------------
(* Claims about the conversation candidates *)

WindowSpeakers(chunk, i) == {chunk[j].speaker : j \in i..(i + 2)} \ {<<>>}

\* the window of three segments starting at i qualifies
Qualifies(chunk, i) ==
    /\ Cardinality(WindowSpeakers(chunk, i)) >= 2
    /\ chunk[i + 2].start_time - chunk[i].start_time < 60

\* E holds the starts of the emitted windows: a window is emitted iff it
\* qualifies and starts after the end of every window emitted before it
EmittedStarts(chunk, E) ==
    \A i \in 1..(Len(chunk) - 2) :
        i \in E <=> (Qualifies(chunk, i) /\ i - 1 \notin E /\ i - 2 \notin E)

ConversationCandidates == SelectSeq(candidateSegments, LAMBDA c : c.type = "conversation")

\* STEP 2 has run on a meeting that is one chunk
OneChunkScanned ==
    kmPc \in {"step3", "step5", "step6", "done"} /\ Len(contextChunks) = 1

\* C19: the conversation candidates of a chunk are one per emitted window,
\* with the timestamp of the window's first segment and importance 2 + the
\* number of distinct non-empty speakers; a window is emitted iff it
\* qualifies and does not overlap an emitted one, and a chunk of fewer than
\* three segments gives none.
C19_OneCandidatePerWindow ==
    OneChunkScanned =>
        LET chunk == contextChunks[1] IN
        \E E \in SUBSET (1..(Len(chunk) - 2)) :
            /\ EmittedStarts(chunk, E)
            /\ Len(ConversationCandidates) = Cardinality(E)
            /\ \A i \in E :
                  LET n == Cardinality({j \in E : j <= i}) IN
                  /\ ConversationCandidates[n].timestamp = chunk[i].start_time
                  /\ ConversationCandidates[n].importance
                        = 2 + Cardinality(WindowSpeakers(chunk, i))
                  /\ ConversationCandidates[n].importance \in {4, 5}
            /\ \A i, j \in E : i < j => j >= i + 3
            /\ Len(chunk) < 3 => ConversationCandidates = <<>>

\* two windows were emitted, of three and of two speakers, and the
\* qualifying windows between them were not
C19_Witness ==
    /\ OneChunkScanned
    /\ Len(ConversationCandidates) = 2
    /\ ConversationCandidates[1].importance = 5
    /\ ConversationCandidates[2].importance = 4
    /\ Qualifies(contextChunks[1], 2)
    /\ Qualifies(contextChunks[1], 3)
----------------------------------------------------------------------------
(* Claims about the segments the tiers of intelligentSearch return *)

\* run r returned a Tier 1 result
Tier1Answered(r) ==
    isTool = "intelligentSearch" /\ isPc[r] = "done" /\ isResult[r].tier = 1

InSeq(x, s) == \E k \in 1..Len(s) : s[k] = x

\* the text of a segment contains one of the residual search words
HasResidualWord(segment, searchTerms) ==
    \E w \in Range(splitWhitespace(toLowerCase(searchTerms))) :
        includes(toLowerCase(SegmentText(segment)), w)

\* C21: every segment of a Tier 1 result belongs to the speaker-filtered
\* subset searchVideoSegment produces for the same speaker and time range,
\* and its text contains at least one residual search word.
C21_Tier1WithinSpeakerSubset ==
    Tier1Answered(1) =>
        \A k \in 1..Len(isResult[1].segs) :
            /\ InSeq(isResult[1].segs[k], SpeakerFiltered(1))
            /\ HasResidualWord(isResult[1].segs[k], isParsed[1].searchTerms)

\* the second half of C21 alone
C21_Tier1HasResidualWord ==
    Tier1Answered(1) =>
        \A k \in 1..Len(isResult[1].segs) :
            HasResidualWord(isResult[1].segs[k], isParsed[1].searchTerms)

\* the residual words of length > 2, and the distinct ones among them
Tier3Words(r) == tier3SearchWords(isParsed[r].searchTerms)
Tier3Terms(r) == Range(Tier3Words(r))

\* the segments of which at least max(1, floor(n/2)) of the n distinct terms
\* are substrings
KeptByDistinctTerms(r) ==
    LET terms == Tier3Terms(r)
        n == Cardinality(terms)
        atLeast == IF n \div 2 >= 1 THEN n \div 2 ELSE 1
    IN SelectSeq(isTranscripts, LAMBDA t :
           Cardinality({w \in terms : includes(toLowerCase(SegmentText(t)), w)})
             >= atLeast)

\* run r has gone through Tier 3, which answered or passed on to Tier 4
Tier3Answered(r) ==
    isTool = "intelligentSearch" /\ isPc[r] = "done" /\ isResult[r].tier = 3
Tier3Declined(r) == isTool = "intelligentSearch" /\ isPc[r] = "tier4"

Tier3Decides(r) ==
    /\ Tier3Answered(r) =>
          /\ Len(Tier3Words(r)) > 1
          /\ isResult[r].segs = KeptByDistinctTerms(r)
    /\ (Tier3Declined(r) /\ Len(Tier3Words(r)) > 1) => KeptByDistinctTerms(r) = <<>>

\* C22: Tier 3 runs only on more than one residual word of length > 2 and
\* keeps a segment iff at least max(1, floor(n/2)) of the n distinct terms
\* are substrings of its lowercased text, so that repeating a term changes
\* nothing.
C22_Tier3DistinctMajority == Tier3Decides(1)

\* the same for queries that repeat no term
C22_WithoutRepeatedTerm ==
    Cardinality(Tier3Terms(1)) = Len(Tier3Words(1)) => Tier3Decides(1)
----------------------------------------------------------------------------
(* Claims about the time range taken from the query *)

\* C23: a time N or M:SS in the query stands for N*60 (+SS) seconds;
\* "between X and Y" sets start and end, "after X" only the start, "before X"
\* only the end, "around X" start = max(0, X-60) and end = X+60 (start never
\* negative, start <= end); of several patterns that match, the first in the
\* order between, after, before, around is the only one applied.
C23_TimeExtraction ==
    Parsed(1) =>
        \A q \in TimeQueries :
            q.text = isQuery =>
                /\ isParsed[1].startTime = (IF q.setsStart THEN q.start ELSE isFilters.startTime)
                /\ isParsed[1].endTime = (IF q.setsEnd THEN q.end ELSE isFilters.endTime)
                /\ (\E c \in Clocks : isQuery = <<"b", "u", "d", "g", "e", "t", " ", "a", "r", "o", "u", "n", "d", " ">> \o c.text) =>
                      /\ isParsed[1].startTime >= 0
                      /\ isParsed[1].startTime <= isParsed[1].endTime

\* "around 0:30" was parsed: the start is clamped to 0 and the end is 90
C23_Witness ==
    /\ Parsed(1)
    /\ isQuery = <<"b", "u", "d", "g", "e", "t", " ", "a", "r", "o", "u", "n", "d", " ", "0", ":", "3", "0">>
    /\ isParsed[1].startTime = 0
    /\ isParsed[1].endTime = 90
----------------------------------------------------------------------------
(* Claims about the recent-bots store *)

\* the last call with id x among the first m calls, 0 when there is none
LastCall(x, m) ==
    IF \E k \in 1..m : dbCalls[k] = x
    THEN CHOOSE k \in 1..m : dbCalls[k] = x /\ \A j \in (k + 1)..m : dbCalls[j] # x
    ELSE 0

\* after m calls the store holds x: x was tracked, and fewer than 50 other
\* bots were tracked since
Held(x, m) ==
    /\ LastCall(x, m) > 0
    /\ Cardinality({dbCalls[j] : j \in (LastCall(x, m) + 1)..m}) < 50

\* the call that created the record the store now holds for x
CreatedAt(x) ==
    LET n == Len(dbCalls) IN
    1 + (CHOOSE m \in 0..n : ~Held(x, m) /\ \A j \in (m + 1)..n : Held(x, j))

\* C24: after any sequence of trackBot calls the records have distinct ids,
\* are at most 50, the bot tracked last is at index 0 and the others follow
\* in order of last tracking, and accessCount is the number of calls for the
\* id since the record was created.
C24_StoreInvariant ==
    LET n == Len(dbCalls) IN
    /\ \A i, j \in 1..Len(dbRecords) : dbRecords[i].id = dbRecords[j].id => i = j
    /\ Len(dbRecords) <= 50
    /\ n > 0 => dbRecords[1].id = dbCalls[n]
    /\ \A i, j \in 1..Len(dbRecords) :
          i < j => LastCall(dbRecords[i].id, n) > LastCall(dbRecords[j].id, n)
    /\ \A i \in 1..Len(dbRecords) :
          /\ Held(dbRecords[i].id, n)
          /\ dbRecords[i].accessCount =
                Cardinality({k \in CreatedAt(dbRecords[i].id)..n :
                                dbCalls[k] = dbRecords[i].id})

\* the store is full, a bot was tracked again and moved to the front, and a
\* bot that had been dropped was created anew
C24_Witness ==
    /\ Len(dbRecords) = 50
    /\ \E i \in 1..Len(dbRecords) : dbRecords[i].accessCount = 2
    /\ \E i \in 1..Len(dbRecords) :
          /\ dbRecords[i].accessCount = 1
          /\ Cardinality({k \in 1..Len(dbCalls) : dbCalls[k] = dbRecords[i].id}) = 2
----------------------------------------------------------------------------
(* Claims about concurrent invocations *)

NoDuplicates(s) == \A i, j \in 1..Len(s) : s[i] = s[j] => i = j

StoreInvariant(records) ==
    /\ NoDuplicates([i \in 1..Len(records) |-> records[i].id])
    /\ Len(records) <= 50

RecentIdsInvariant(ids) == NoDuplicates(ids) /\ Len(ids) <= 5

\* C25: under any interleaving of concurrent invocations, an invocation's
\* result depends only on its arguments and its API responses (two
\* invocations with the same arguments and responses return the same result,
\* whatever the other did to the store and the session in between), and the
\* recent-bots store has no duplicate ids and at most 50 records, and
\* session.recentBotIds no duplicates and at most 5 ids.
C25_ConcurrentInvocations ==
    /\ (isPc[1] = "done" /\ isPc[2] = "done") => isResult[1] = isResult[2]
    /\ \A r \in Runs :
          /\ StoreInvariant(recentBots[StoreOf(r)])
          /\ RecentIdsInvariant(recentBotIds[SessionOf(r)])

\* run 2 has returned segments while run 1, started first or not, is still
\* suspended at its second request; both have tracked the bot, in a store
\* that was full and a session that held 5 other ids
C25_Witness ==
    /\ isShare = "session"
    /\ isPc[1] = "tier1"
    /\ isPc[2] = "done"
    /\ isResult[2].segs # <<>>
    /\ Len(recentBots[1]) = TinyDbMax
    /\ recentBots[1][1] = [id |-> BotId, accessCount |-> 3]
    /\ Len(recentBotIds[1]) = RecentIdsMax
    /\ recentBotIds[1][1] = BotId
----------------------------------------------------------------------------
(* Claims about the number of key moments *)

\* the invocation got the meeting and went through the ranking
KMRanked ==
    \/ kmPc = "step6"
    \/ kmPc = "done" /\ kmResult.kind \in {"moments", "noKeyMoments"}

\* C26: for a non-empty transcript and maxMoments >= 1, findKeyMoments
\* returns at least one key moment, never the "No key moments found"
\* message: the highest-ranked candidate survives deduplication, so the
\* deduplicated list is not empty.
C26_AlwaysAKeyMoment ==
    /\ (/\ kmPc = "done"
        /\ kmResult.kind \notin {"authFailed", "error", "noMeetingData"}
        /\ transcriptsIn # <<>>
        /\ maxMoments >= 1)
       => /\ kmResult.kind = "moments"
          /\ Len(kmResult.moments) >= 1
    /\ KMRanked =>
          /\ rankedSegments # <<>>
          /\ dedupedSegments # <<>>
          /\ dedupedSegments[1] = rankedSegments[1]

\* a meeting of one segment that no pattern matches: there is no candidate,
\* and the one key moment is the meeting start
C26_Witness ==
    /\ kmPc = "done"
    /\ Len(transcriptsIn) = 1
    /\ candidateSegments = <<>>
    /\ kmResult.kind = "moments"
    /\ Len(kmResult.moments) = 1
    /\ kmResult.moments[1].description = "Meeting start"
----------------------------------------------------------------------------
(* Claims about the tracking done by one search *)

\* the accessCount of the bot in a record list, 0 when it has no record
AccessCount(records, id) ==
    IF \E i \in 1..Len(records) : records[i].id = id
    THEN (CHOOSE rec \in {records[i] : i \in 1..Len(records)} : rec.id = id).accessCount
    ELSE 0

OtherRecords(records, id) == SelectSeq(records, LAMBDA rec : rec.id # id)

\* the store the invocation found: tracking the bot leaves the records of
\* the other bots as they were
StoreAtStart(r) ==
    (CHOOSE st \in StoreCases :
        OtherRecords(st.records, BotId) = OtherRecords(recentBots[r], BotId)).records

\* run r is an intelligentSearch that a tier answered, every request was
\* answered and the tracking writes succeed
TierAnswered(r) ==
    /\ Answered(r)
    /\ isResult[r].tier >= 1
    /\ isCtx[r].sessionDefined
    /\ ~isCtx[r].storeThrows

\* C27: one intelligentSearch records the bot once: whichever tier answers,
\* the bot's accessCount has risen by exactly 1 and meeting_data was fetched
\* exactly once.
C27_TrackedOnce ==
    TierAnswered(1) =>
        /\ AccessCount(recentBots[1], BotId) = AccessCount(StoreAtStart(1), BotId) + 1
        /\ apiCalls[1] = 1

\* every request of the invocation fetches meeting_data and raises the
\* count; there is one request only when no tier calls another tool, which
\* is when Tier 3 answers a query without a speaker
C27_OncePerRequest ==
    TierAnswered(1) =>
        /\ AccessCount(recentBots[1], BotId)
             = AccessCount(StoreAtStart(1), BotId) + apiCalls[1]
        /\ apiCalls[1] = 1 <=> (isResult[1].tier = 3 /\ isParsed[1].speaker = <<>>)
----------------------------------------------------------------------------
(* Claims about the credential of the requests *)

ResolvedKey == createValidSession(btIn.ctx.sessionKey, btIn.ctx.envKey, btIn.ctx.configKey)

\* a key was resolved, the invocation returned, every request sent was
\* answered, and a bot searched holds a match
BTShouldFind ==
    /\ ResolvedKey # NoKey
    /\ btPc = "done"
    /\ \A k \in 1..Len(btRequests) : btRequests[k].sent => btRequests[k].outcome = "ok"
    /\ LET searched == filterByMeetingType(btIn.bots, btIn.meetingType)
       IN \E i \in 1..Min2(btIn.limit, Len(searched)) :
            botResults(searched[i], btIn.query) # <<>>

\* C28: when createValidSession resolves a key, every apiRequest of the
\* invocation is made with that key: in searchTranscriptByType the listing
\* request and each meeting_data request, so that with a key from the
\* environment or the config file alone the per-bot requests succeed and
\* the matches are found.
C28_RequestsUseResolvedKey ==
    /\ \A k \in 1..Len(btRequests) :
          /\ btRequests[k].key = ResolvedKey
          /\ btRequests[k].sent
    /\ BTShouldFind => btResult.kind = "found"

\* the listing request is made with the resolved key, the meeting_data
\* requests with the key of context.session
C28_PerBotUsesRawSession ==
    \A k \in 1..Len(btRequests) :
        btRequests[k].key = (IF btRequests[k].endpoint = "all" THEN ResolvedKey
                             ELSE btIn.ctx.sessionKey)
----------------------------------------------------------------------------
(* Claims about the time range of the results *)

\* end_time, or start_time + 5 when the segment has none
SegmentEnd(seg) == IF seg.end_time # NoTime THEN seg.end_time ELSE seg.start_time + 5

InsideRange(seg, startTime, endTime) ==
    /\ startTime # NoTime => seg.start_time >= startTime
    /\ endTime # NoTime => SegmentEnd(seg) <= endTime

RangeInEffect(r) == isParsed[r].startTime # NoTime \/ isParsed[r].endTime # NoTime

ResultInsideRange(r) ==
    \A i \in 1..Len(isResult[r].segs) :
        InsideRange(isResult[r].segs[i], isParsed[r].startTime, isParsed[r].endTime)

\* C29: when a time range is in effect for intelligentSearch, from the
\* filters or from the query, every segment of the result, whichever tier
\* produced it, lies inside the range: start_time >= startTime and end_time
\* (start_time + 5 when absent) <= endTime.
C29_ResultInsideTimeRange ==
    (Answered(1) /\ RangeInEffect(1)) => ResultInsideRange(1)

\* the results of Tier 2 and Tier 5, which are those of searchVideoSegment,
\* lie inside the range
C29_SegmentTiersInsideRange ==
    (Answered(1) /\ RangeInEffect(1) /\ isResult[1].tier \in {2, 5}) => ResultInsideRange(1)
----------------------------------------------------------------------------
(* Claims about the authentication of a connection *)

\* the key the connection supplies in an x-api-key header, NoKey when it
\* supplies none
SuppliedKey ==
    IF connIn.requestHeader.kind # "absent" /\ keyValue(connIn.requestHeader) # NoKey
    THEN keyValue(connIn.requestHeader)
    ELSE IF connIn.contextHeader.kind # "absent"
    THEN keyValue(connIn.contextHeader)
    ELSE NoKey

\* C30: a connection with no key in the x-api-key header and no
\* MEETING_BAAS_API_KEY in the environment is rejected with status 401; a
\* key in the header is used in preference to the environment variable, and
\* the session returned carries that key.
C30_Authenticate ==
    connPc = "done" =>
        /\ (SuppliedKey = NoKey /\ connIn.env = NoKey) => connOut.status = 401
        /\ SuppliedKey # NoKey => connOut = ConnOut(200, SuppliedKey)

\* the second half of C30 holds, and a connection without any key is
\* rejected, with status 500
C30_HeaderKeyWinsRejectedWith500 ==
    connPc = "done" =>
        /\ (SuppliedKey = NoKey /\ connIn.env = NoKey) => connOut = ConnOut(500, NoKey)
        /\ SuppliedKey # NoKey => connOut = ConnOut(200, SuppliedKey)
        /\ (SuppliedKey = NoKey /\ connIn.env # NoKey) => connOut = ConnOut(200, connIn.env)
====
